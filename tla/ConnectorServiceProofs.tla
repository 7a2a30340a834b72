----------------------- MODULE ConnectorServiceProofs ------------------------
(***************************************************************************)
(* Proof that the cache of operations is current once the tables have been *)
(* quiet for the lifetime of the cache and the lag of a fill, for any      *)
(* number of callers and admins, any tables and any faults; that usage     *)
(* rows tell what the calls did, and that a stored key reaches the call.   *)
(*                                                                         *)
(* ServedCurrent is not inductive: it does not say how old the rows of a   *)
(* fill on its way are, nor that cached rows age as time passes.  CacheInv *)
(* relates both to quiet, step by step.  UsageInv numbers the calls and    *)
(* their usage rows; AuthInv says that sealed secrets are the last ones    *)
(* put.                                                                    *)
(***************************************************************************)
EXTENDS ConnectorService, ConnectorTablesProofs

\* A fill's rows are current if nothing changed since it read them.
FillCurrent(r) ==
  /\ r.lag \in 0..MaxLag
  /\ quiet > r.lag => Current(r.rows, r.whole)

CallFields == DOMAIN Idle

\* Calls have their fields, and fills on their way are as old as they say.
CallInv ==
  /\ DOMAIN call = Callers
  /\ \A c \in Callers : DOMAIN call[c] = CallFields
  /\ \A c \in Callers : call[c].pc = "store" => FillCurrent(call[c])
  /\ \A c \in Callers : call[c].pc \in {"load", "store"} => call[c].row = Null

\* What is cached is current if nothing changed since it was read.
StoreInv ==
  /\ quiet \in 0..Bound
  /\ cache.age \in Nat
  /\ cache = [rows |-> cache.rows, age |-> cache.age, whole |-> cache.whole]
  /\ cache.rows # Null /\ quiet > MaxLag + cache.age => Current(cache.rows, cache.whole)

CacheInv == CallInv /\ StoreInv

\* The bounds are numbers, and the quiet time is the lag and the lifetime.
LEMMA BoundNat == Bound \in Nat /\ MaxLag \in Nat /\ TTL \in Nat /\ TTL > 0 /\ Bound = MaxLag + TTL
  BY ConnectorServiceAssumption DEF Bound

\* The result of the query depends on the tables only.
LEMMA ViewFrame == ASSUME UNCHANGED tables PROVE LoadView' = LoadView
  BY DEF tables, LoadView

\* What is current stays so while the tables do not change.
LEMMA CurrentFrame ==
  ASSUME UNCHANGED tables, NEW R, NEW w, Current(R, w)
  PROVE  Current(R, w)'
  BY ViewFrame DEF Current

\* At the start the cache is empty and no fill is under way.
LEMMA InitCache == ServiceInit => CacheInv
<1> SUFFICES ASSUME ServiceInit PROVE CacheInv
  OBVIOUS
<1>1. \A c \in Callers : call[c] = Idle
  BY DEF ServiceInit
<1>2. CallInv
  BY <1>1 DEF ServiceInit, CallInv, CallFields, Idle
<1>3. StoreInv
  BY BoundNat DEF ServiceInit, StoreInv, NoCache
<1> QED BY <1>2, <1>3 DEF CacheInv

\* A step of the admins: quiet starts again if the query's result changes.
LEMMA TablesKeep ==
  ASSUME CacheInv, Watched, UNCHANGED serviceVars
  PROVE  CacheInv'
<1> USE DEF serviceVars
<1>1. CASE LoadView' = LoadView
  BY <1>1, BoundNat DEF CacheInv, CallInv, StoreInv, FillCurrent, Current, Watched
<1>2. CASE LoadView' # LoadView
  <2>1. quiet' = 0
    BY <1>2 DEF Watched
  <2>2. CallInv'
    BY <2>1, BoundNat DEF CacheInv, CallInv, FillCurrent
  <2>3. StoreInv'
    BY <2>1, BoundNat DEF CacheInv, StoreInv
  <2> QED BY <2>2, <2>3 DEF CacheInv
<1> QED BY <1>1, <1>2

\* A step of a request that leaves the cache alone.
LEMMA CallMoves ==
  ASSUME CacheInv, NEW c \in Callers, NEW r, call' = [call EXCEPT ![c] = r],
         UNCHANGED <<tables, quiet>>, DOMAIN r = CallFields,
         r.pc = "store" => r.lag = 0 /\ Current(r.rows, r.whole),
         r.pc \in {"load", "store"} => r.row = Null
  PROVE  CallInv'
<1>1. DOMAIN call' = Callers
  BY DEF CacheInv, CallInv
<1>2. ASSUME NEW x \in Callers PROVE call'[x] = IF x = c THEN r ELSE call[x]
  BY DEF CacheInv, CallInv
<1>3. ASSUME NEW x \in Callers, call'[x].pc = "store" PROVE FillCurrent(call[x])'
  BY <1>2, <1>3, CurrentFrame, BoundNat DEF CacheInv, CallInv, FillCurrent
<1>4. ASSUME NEW x \in Callers, call'[x].pc \in {"load", "store"} PROVE call'[x].row = Null
  BY <1>2, <1>4 DEF CacheInv, CallInv
<1>5. ASSUME NEW x \in Callers PROVE DOMAIN call'[x] = CallFields
  BY <1>2 DEF CacheInv, CallInv
<1>6. CallFields' = CallFields
  BY DEF CallFields, Idle
<1> QED BY <1>1, <1>3, <1>4, <1>5, <1>6 DEF CallInv

\* So does what the invariant says of the cache.
LEMMA StoreFrame ==
  ASSUME CacheInv, UNCHANGED <<cache, quiet, tables>>
  PROVE  StoreInv'
  BY CurrentFrame DEF CacheInv, StoreInv

\* Routing leads out of the load.
LEMMA RoutedMoves ==
  ASSUME NEW c \in Callers, NEW R, CacheInv, call[c].pc \in {"load", "store"}, Routed(c, R),
         UNCHANGED <<tables, quiet>>
  PROVE  /\ CallInv'
         /\ call'[c].row # Null => call'[c].row \in R
         /\ call'[c].pc = "idle" => call'[c].rows \subseteq R
<1> DEFINE Fine(r) == /\ r.pc \notin {"load", "store"}
                      /\ r.row # Null => r.row \in R
                      /\ r.pc = "idle" => r.rows \subseteq R
                      /\ DOMAIN r = CallFields
<1>1. \E r : Fine(r) /\ call' = [call EXCEPT ![c] = r]
  <2>1. Fine(Idle)
    BY DEF Idle, CallFields
  <2>2. CASE End(c)
    BY <2>1, <2>2 DEF End, Move
  <2>3. CASE AnswerList(c, R)
    <3> DEFINE r == [Idle EXCEPT !.rows = R]
    <3>1. Fine(r) /\ call' = [call EXCEPT ![c] = r]
      BY <2>3 DEF AnswerList, Move, Idle, CallFields
    <3> QED BY <3>1
  <2>4. CASE ~End(c) /\ ~AnswerList(c, R)
    <3>1. PICK x \in R : Serve(c, x)
      BY <2>4 DEF Routed
    <3>2. PICK pc, st : pc \in {"send", "auth", "log"} /\ Move(c, With(c, x, pc, st))
      BY <2>4, <3>1 DEF Serve
    <3>3. Fine(With(c, x, pc, st))
      BY <3>2 DEF With, Idle, CallFields
    <3>4. call' = [call EXCEPT ![c] = With(c, x, pc, st)]
      BY <3>2 DEF Move
    <3> HIDE DEF Fine
    <3> QED BY <3>3, <3>4
  <2> QED BY <2>2, <2>3, <2>4
<1>2. PICK r : Fine(r) /\ call' = [call EXCEPT ![c] = r]
  BY <1>1
<1>3. CallInv'
  BY <1>2, CallMoves
<1>4. call'[c] = r
  BY <1>2 DEF CacheInv, CallInv
<1> QED BY <1>2, <1>3, <1>4

\* A step of a request.
LEMMA RequestKeeps ==
  ASSUME CacheInv, RequestNext
  PROVE  CacheInv'
<1>1. UNCHANGED <<tables, quiet>>
  BY DEF RequestNext
<1> USE DEF CacheInv
<1>2. ASSUME NEW c \in Callers, NEW r, Move(c, r), UNCHANGED cache, DOMAIN r = CallFields,
             r.pc = "store" => r.lag = 0 /\ Current(r.rows, r.whole),
             r.pc \in {"load", "store"} => r.row = Null
      PROVE  CacheInv'
  BY <1>1, <1>2, CallMoves, StoreFrame DEF Move
<1>3. ASSUME NEW c \in Callers, End(c), UNCHANGED cache
      PROVE  CacheInv'
  BY <1>2, <1>3 DEF End, Idle, CallFields
<1>4. ASSUME NEW c \in Callers, NEW req, Dynamic(c, req) PROVE CacheInv'
  <2>1. Move(c, [Idle EXCEPT !.pc = "load", !.n = served + 1, !.req = req]) /\ UNCHANGED cache
    BY <1>4 DEF Dynamic
  <2> QED BY <2>1, <1>2 DEF Idle, CallFields
<1>5. ASSUME NEW c \in Callers, NEW req, canonicalHandler(c, req) PROVE CacheInv'
  <2>1. UNCHANGED cache
    BY <1>5 DEF canonicalHandler
  <2>2. CASE End(c)
    BY <2>1, <2>2, <1>3
  <2>3. CASE Move(c, [Idle EXCEPT !.pc = "log", !.n = served + 1, !.req = req, !.status = "200"])
    BY <2>1, <2>3, <1>2 DEF Idle, CallFields
  <2> QED BY <1>5, <2>2, <2>3 DEF canonicalHandler
<1>6. ASSUME NEW c \in Callers, LoadCached(c) PROVE CacheInv'
  BY <1>1, <1>6, RoutedMoves, StoreFrame DEF LoadCached
<1>7. ASSUME NEW c \in Callers, NEW R, NEW w, Current(R, w), call[c].pc = "load", UNCHANGED cache,
             Fetched(c, R, w)
      PROVE  CacheInv'
  BY <1>2, <1>7 DEF Fetched, CallInv, CallFields, Idle
<1>8. ASSUME NEW c \in Callers, LoadQuery(c) PROVE CacheInv'
  BY <1>7, <1>8 DEF LoadQuery, Current
<1>9. ASSUME NEW c \in Callers, LoadBreaksOff(c) PROVE CacheInv'
  <2>1. PICK rows \in SUBSET LoadView : Fetched(c, rows, FALSE)
    BY <1>9 DEF LoadBreaksOff
  <2>2. Current(rows, FALSE)
    BY DEF Current
  <2> QED BY <1>7, <1>9, <2>1, <2>2 DEF LoadBreaksOff
<1>10. ASSUME NEW c \in Callers, Store(c) PROVE CacheInv'
  <2>1. call[c].pc = "store" /\ Routed(c, call[c].rows)
        /\ cache' = [rows |-> call[c].rows, age |-> 0, whole |-> call[c].whole]
    BY <1>10 DEF Store
  <2>2. CallInv'
    BY <1>1, <2>1, RoutedMoves
  <2>3. quiet > MaxLag => Current(call[c].rows, call[c].whole)
    BY <2>1, BoundNat DEF CallInv, StoreInv, FillCurrent
  <2>4. StoreInv'
    BY <1>1, <2>1, <2>3, BoundNat, CurrentFrame DEF StoreInv
  <2> QED BY <2>2, <2>4
\* The steps after the load keep the row and leave the load for good.
<1>11. ASSUME NEW c \in Callers, NEW r, Move(c, r), UNCHANGED cache, DOMAIN r = DOMAIN call[c],
              r.pc \in {"send", "log"}
       PROVE  CacheInv'
  BY <1>2, <1>11 DEF CallInv
<1>12. ASSUME NEW c \in Callers, LookupAuth(c) \/ LookupAuthFails(c) PROVE CacheInv'
  <2>1. {"pc", "key"} \subseteq DOMAIN call[c]
    BY DEF CallInv, CallFields, Idle
  <2> QED BY <1>11, <1>12, <2>1 DEF LookupAuth, LookupAuthFails
<1>13. ASSUME NEW c \in Callers, NEW status, Answer(c, status) PROVE CacheInv'
  <2>1. {"pc", "status"} \subseteq DOMAIN call[c]
    BY DEF CallInv, CallFields, Idle
  <2> QED BY <1>11, <1>13, <2>1 DEF Answer
<1>14. ASSUME NEW c \in Callers, AnswerFails(c) \/ LogUsage(c) \/ LogUsageFails(c) \/ LoadFails(c)
       PROVE  CacheInv'
  BY <1>3, <1>14 DEF AnswerFails, LogUsage, LogUsageFails, LoadFails
<1>15. ASSUME Restart PROVE CacheInv'
  <2>1. \A c \in Callers : call'[c] = Idle
    BY <1>15 DEF Restart
  <2>2. CallInv'
    BY <2>1, <1>15 DEF Restart, CallInv, CallFields, Idle
  <2>3. StoreInv'
    BY <1>1, <1>15, BoundNat DEF Restart, StoreInv, NoCache
  <2> QED BY <2>2, <2>3
<1>16. CASE \E c \in Callers : CallerNext(c)
  BY <1>16, <1>4, <1>5, <1>6, <1>8, <1>10, <1>12, <1>13, <1>14 DEF CallerNext, Step
<1>17. CASE ServiceFault
  BY <1>17, <1>9, <1>12, <1>14, <1>15 DEF ServiceFault
<1> QED BY <1>16, <1>17 DEF RequestNext

\* Time passes for fills, cache and quiet tables alike.
LEMMA TickKeeps ==
  ASSUME CacheInv, Tick
  PROVE  CacheInv'
<1>1. UNCHANGED tables
  BY DEF Tick, connectorVars
<1>2. quiet' = IF quiet < Bound THEN quiet + 1 ELSE quiet
  BY DEF Tick
<1>3. \A c \in Callers : call'[c] = IF call[c].pc = "store" THEN [call[c] EXCEPT !.lag = @ + 1] ELSE call[c]
  BY DEF Tick
<1>4. \A c \in Callers : {"lag", "pc", "row", "rows", "whole"} \subseteq DOMAIN call[c]
  BY DEF CacheInv, CallInv, CallFields, Idle
<1>5. ASSUME NEW c \in Callers, call'[c].pc = "store" PROVE FillCurrent(call[c])'
  <2>1. call[c].pc = "store"
    BY <1>3, <1>5
  <2>2. call'[c].lag = call[c].lag + 1 /\ call'[c].rows = call[c].rows /\ call'[c].whole = call[c].whole
    BY <1>3, <1>4, <2>1
  <2>3. call[c].lag \in 0..MaxLag /\ call[c].lag < MaxLag
    BY <2>1 DEF CacheInv, CallInv, FillCurrent, Tick
  <2>4. ASSUME quiet' > call'[c].lag PROVE Current(call[c].rows, call[c].whole)'
    <3>1. quiet > call[c].lag
      BY <1>2, <2>2, <2>3, <2>4, BoundNat DEF CacheInv, StoreInv
    <3>2. Current(call[c].rows, call[c].whole)
      BY <2>1, <3>1 DEF CacheInv, CallInv, FillCurrent
    <3> QED BY <1>1, <2>2, <3>2, ViewFrame DEF Current
  <2> QED BY <2>2, <2>3, <2>4, BoundNat DEF FillCurrent
<1>6. CallInv'
  <2>1. DOMAIN call' = Callers
    BY DEF Tick
  <2>2. \A c \in Callers : DOMAIN call'[c] = CallFields
    BY <1>3 DEF CacheInv, CallInv
  <2>3. \A c \in Callers : call'[c].pc = call[c].pc /\ call'[c].row = call[c].row
    BY <1>3, <1>4
  <2>4. CallFields' = CallFields
    BY DEF CallFields, Idle
  <2> QED BY <1>5, <2>1, <2>2, <2>3, <2>4 DEF CacheInv, CallInv
<1>7. StoreInv'
  <2>1. cache' = [cache EXCEPT !.age = IF cache.age > TTL \/ cache.rows = Null THEN cache.age ELSE cache.age + 1]
    BY DEF Tick
  <2>2. /\ cache'.age = IF cache.age > TTL \/ cache.rows = Null THEN cache.age ELSE cache.age + 1
        /\ cache'.rows = cache.rows /\ cache'.whole = cache.whole
        /\ cache' = [rows |-> cache'.rows, age |-> cache'.age, whole |-> cache'.whole]
    BY <2>1 DEF CacheInv, StoreInv
  <2>3. quiet' \in 0..Bound /\ cache'.age \in Nat
    BY <1>2, <2>2, BoundNat DEF CacheInv, StoreInv
  <2>4. ASSUME cache'.rows # Null, quiet' > MaxLag + cache'.age
        PROVE  Current(cache.rows, cache.whole)'
    <3>1. quiet > MaxLag + cache.age
      BY <1>2, <2>2, <2>4, BoundNat DEF CacheInv, StoreInv
    <3>2. Current(cache.rows, cache.whole)
      BY <2>2, <2>4, <3>1 DEF CacheInv, StoreInv
    <3> QED BY <1>1, <2>2, <3>2, ViewFrame DEF Current
  <2> QED BY <2>2, <2>3, <2>4 DEF StoreInv
<1> QED BY <1>6, <1>7 DEF CacheInv

\* No other step touches the cache, the fills or quiet.
LEMMA NextKeepsCache == CacheInv /\ [ServiceNext]_systemVars => CacheInv'
<1> SUFFICES ASSUME CacheInv, [ServiceNext]_systemVars PROVE CacheInv'
  OBVIOUS
<1>1. CASE TablesNext
  BY <1>1, TablesKeep DEF TablesNext
<1>2. ASSUME UNCHANGED <<tables, serviceVars, quiet>> PROVE CacheInv'
  BY <1>2, ViewFrame, TablesKeep DEF Watched
<1>3. CASE AuthNext
  BY <1>2, <1>3 DEF AuthNext, AuthAdmin
<1>4. CASE UNCHANGED systemVars
  BY <1>2, <1>4 DEF systemVars, connectorVars
<1> QED BY <1>1, <1>3, <1>4, RequestKeeps, TickKeeps DEF ServiceNext

\* The invariant on the cache holds throughout.
LEMMA CacheInvariant == ServiceSpec => []CacheInv
  BY InitCache, NextKeepsCache, PTL DEF ServiceSpec

\* What the cache serves is current once the tables have been quiet for
\* MaxLag + TTL (registry.go, LoadOperations), however fills overlap.
THEOREM CacheServesCurrent == ServiceSpec => []ServedCurrent
<1>1. CacheInv => ServedCurrent
  BY BoundNat DEF CacheInv, StoreInv, ServedCurrent, CacheHit
<1> QED BY <1>1, CacheInvariant, PTL

\* A step of one request touches no other.
LEMMA CallerMoves ==
  ASSUME NEW d \in Callers,
         CallerNext(d) \/ LoadBreaksOff(d) \/ LoadFails(d) \/ LookupAuthFails(d) \/ LogUsageFails(d)
  PROVE  \E r : Move(d, r)
<1>1. ASSUME NEW R, Routed(d, R) PROVE \E r : Move(d, r)
  BY <1>1 DEF Routed, Serve, End, AnswerList
<1>2. CASE LoadCached(d) \/ Store(d)
  BY <1>1, <1>2 DEF LoadCached, Store
<1>3. CASE (\E req : Dynamic(d, req)) \/ (\E req : canonicalHandler(d, req))
  BY <1>3 DEF Dynamic, canonicalHandler, End
<1>4. CASE LoadQuery(d) \/ LoadBreaksOff(d) \/ LoadFails(d)
  BY <1>4 DEF LoadQuery, LoadBreaksOff, LoadFails, Fetched, End
<1>5. CASE \/ LookupAuth(d) \/ LookupAuthFails(d) \/ (\E status : Answer(d, status))
           \/ AnswerFails(d) \/ LogUsage(d) \/ LogUsageFails(d)
  BY <1>5 DEF LookupAuth, LookupAuthFails, Answer, AnswerFails, LogUsage, LogUsageFails, End
<1> QED BY <1>2, <1>3, <1>4, <1>5 DEF CallerNext, Step

\* A list is answered from current rows, too.
LEMMA ListsCurrent ==
  ASSUME CacheInv, ServiceNext, NEW c \in Callers,
         call[c].pc \in {"load", "store"}, call'[c].pc = "idle", quiet >= Bound
  PROVE  call'[c].rows \subseteq LoadView
<1>1. call'[c] # call[c]
  OBVIOUS
<1>2. CASE TablesNext \/ AuthNext
  BY <1>1, <1>2 DEF TablesNext, AuthNext, serviceVars
<1>3. CASE Tick
  <2>1. call'[c].pc = call[c].pc
    <3>1. {"pc", "lag"} \subseteq DOMAIN call[c]
      BY DEF CacheInv, CallInv, CallFields, Idle
    <3> QED BY <1>3, <3>1 DEF Tick
  <2> QED BY <2>1
<1>4. CASE RequestNext
  <2>1. UNCHANGED <<tables, quiet>>
    BY <1>4 DEF RequestNext
  <2>2. CASE Restart
    BY <2>2 DEF Restart, Idle
  <2>3. CASE LoadFails(c)
    BY <2>3 DEF LoadFails, End, Move, Idle, CacheInv, CallInv
  <2>4. CASE LoadCached(c)
    <3>1. call'[c].rows \subseteq cache.rows
      BY <2>1, <2>4, RoutedMoves DEF LoadCached
    <3>2. Current(cache.rows, cache.whole)
      BY <2>4, BoundNat DEF LoadCached, CacheHit, CacheInv, StoreInv
    <3> QED BY <3>1, <3>2 DEF Current
  <2>5. CASE Store(c)
    <3>1. call'[c].rows \subseteq call[c].rows
      BY <2>1, <2>5, RoutedMoves DEF Store
    <3>2. Current(call[c].rows, call[c].whole)
      BY <2>5, BoundNat DEF Store, CacheInv, CallInv, FillCurrent, StoreInv
    <3> QED BY <3>1, <3>2 DEF Current
  <2>6. ASSUME NEW R, NEW w, Fetched(c, R, w) PROVE FALSE
    <3>1. call'[c].pc = "store"
      BY <2>6 DEF Fetched, Move, CacheInv, CallInv, CallFields, Idle
    <3> QED BY <3>1
  <2>7. ASSUME NEW d \in Callers, CallerNext(d) \/ LoadBreaksOff(d) \/ LoadFails(d)
                                  \/ LookupAuthFails(d) \/ LogUsageFails(d)
        PROVE  call'[c].rows \subseteq LoadView
    <3>1. d = c
      BY <1>1, <2>7, CallerMoves DEF Move, CacheInv, CallInv
    <3>2. LoadCached(c) \/ LoadQuery(c) \/ Store(c) \/ LoadBreaksOff(c) \/ LoadFails(c)
      BY <2>7, <3>1 DEF CallerNext, Step, Dynamic, canonicalHandler, LookupAuth, Answer,
                        AnswerFails, LogUsage, LookupAuthFails, LogUsageFails
    <3>3. ~LoadQuery(c) /\ ~LoadBreaksOff(c)
      BY <2>6 DEF LoadQuery, LoadBreaksOff
    <3> QED BY <2>3, <2>4, <2>5, <3>2, <3>3
  <2>8. Restart \/ \E d \in Callers : CallerNext(d) \/ LoadBreaksOff(d) \/ LoadFails(d)
                                   \/ LookupAuthFails(d) \/ LogUsageFails(d)
    BY <1>4 DEF RequestNext, ServiceFault
  <2> QED BY <2>2, <2>7, <2>8
<1> QED BY <1>2, <1>3, <1>4 DEF ServiceNext

\* And a caller is routed by a current operation, whether its rows come from
\* the cache or from its own query (handler.go, dynamicOperationsRouter).
THEOREM CallersRoutedCurrent == ServiceSpec => RoutesCurrent
<1> DEFINE RouteStep ==
      \A c \in Callers :
        /\ call[c].pc \in {"load", "store"} /\ call'[c].row # Null
        /\ quiet >= Bound
        => call'[c].row \in LoadView
<1>1. CacheInv /\ [ServiceNext]_systemVars => [RouteStep]_systemVars
  <2> SUFFICES ASSUME CacheInv, ServiceNext, NEW c \in Callers,
                      call[c].pc \in {"load", "store"}, call'[c].row # Null, quiet >= Bound
               PROVE  call'[c].row \in LoadView
    OBVIOUS
  <2>1. call[c].row = Null
    BY DEF CacheInv, CallInv
  <2>2. CASE call'[c] = call[c]
    BY <2>1, <2>2
  <2>3. CASE TablesNext \/ AuthNext
    BY <2>2, <2>3 DEF TablesNext, AuthNext, serviceVars
  <2>4. CASE Tick
    <3>1. "row" \in DOMAIN call[c]
      BY DEF CacheInv, CallInv, CallFields, Idle
    <3>2. call'[c] = IF call[c].pc = "store" THEN [call[c] EXCEPT !.lag = @ + 1] ELSE call[c]
      BY <2>4 DEF Tick
    <3> QED BY <2>1, <3>1, <3>2
  <2>5. CASE RequestNext
    <3>1. UNCHANGED <<tables, quiet>>
      BY <2>5 DEF RequestNext
    <3>2. CASE Restart
      BY <3>2 DEF Restart, Idle
    <3>3. CASE \E d \in Callers \ {c} : \E r : Move(d, r)
      BY <2>2, <3>3 DEF Move, CacheInv, CallInv
    <3>4. CASE End(c)
      BY <3>4 DEF End, Move, Idle, CacheInv, CallInv
    <3>5. ASSUME NEW R, NEW w, Fetched(c, R, w) PROVE call'[c].row = Null
      BY <2>1, <3>5 DEF Fetched, Move, CacheInv, CallInv, CallFields, Idle
    <3>6. CASE LoadCached(c)
      <4>1. call'[c].row \in cache.rows
        BY <3>1, <3>6, RoutedMoves DEF LoadCached
      <4>2. Current(cache.rows, cache.whole)
        BY <3>6, BoundNat DEF LoadCached, CacheHit, CacheInv, StoreInv
      <4> QED BY <4>1, <4>2 DEF Current
    <3>7. CASE Store(c)
      <4>1. call'[c].row \in call[c].rows
        BY <3>1, <3>7, RoutedMoves DEF Store
      <4>2. Current(call[c].rows, call[c].whole)
        BY <3>7, BoundNat DEF Store, CacheInv, CallInv, FillCurrent, StoreInv
      <4> QED BY <4>1, <4>2 DEF Current
    <3>8. Restart \/ \E d \in Callers : CallerNext(d) \/ LoadBreaksOff(d) \/ LoadFails(d)
                                     \/ LookupAuthFails(d) \/ LogUsageFails(d)
      BY <2>5 DEF RequestNext, ServiceFault
    <3>9. ASSUME NEW d \in Callers, CallerNext(d) \/ LoadBreaksOff(d) \/ LoadFails(d)
                                    \/ LookupAuthFails(d) \/ LogUsageFails(d)
          PROVE  call'[c].row \in LoadView
      <4>1. CASE d # c
        BY <3>3, <3>9, <4>1, CallerMoves
      <4>2. CASE d = c
        <5>1. LoadCached(c) \/ LoadQuery(c) \/ Store(c) \/ LoadBreaksOff(c) \/ LoadFails(c)
          BY <3>9, <4>2 DEF CallerNext, Step, Dynamic, canonicalHandler, LookupAuth, Answer,
                            AnswerFails, LogUsage, LookupAuthFails, LogUsageFails
        <5>2. CASE LoadQuery(c) \/ LoadBreaksOff(c)
          BY <3>5, <5>2 DEF LoadQuery, LoadBreaksOff
        <5>3. CASE LoadFails(c)
          BY <3>4, <5>3 DEF LoadFails
        <5> QED BY <3>6, <3>7, <5>1, <5>2, <5>3
      <4> QED BY <4>1, <4>2
    <3> QED BY <3>2, <3>8, <3>9
  <2> QED BY <2>3, <2>4, <2>5 DEF ServiceNext
<1> QED BY <1>1, CacheInvariant, PTL DEF ServiceSpec, RoutesCurrent
-----------------------------------------------------------------------------
(* Usage rows *)

\* What a request that is served has done: it has a number of its own, and an
\* operation that it has carried out has no usage row yet.
CallUsage(r) ==
  /\ r.n \in 0..served /\ (r.pc = "idle" <=> r.n = 0)
  /\ r.pc \in {"auth", "send"} => r.row.path = r.req.path
  /\ r.pc = "log" => [n |-> r.n, path |-> r.req.path, status |-> r.status] \in answered
  /\ r.pc \notin {"idle", "log"} => \A x \in answered : x.n # r.n
  /\ \A i \in DOMAIN usage : usage[i].n # r.n

\* Calls and usage rows have numbers that were given out.
Numbered ==
  /\ served \in Nat /\ faults \in Nat
  /\ usage \in Seq(answered)
  /\ \A i, j \in DOMAIN usage : usage[i].n = usage[j].n => i = j
  /\ \A x \in answered : x.n \in 1..served
  /\ \A x, y \in answered : x.n = y.n => x = y

\* No two calls in progress share a number.
Apart == \A c, d \in Callers : call[c].n = call[d].n /\ call[c].n # 0 => c = d

\* While nothing fails an operation has its row or is about to get it.
Logged(x) ==
  \/ \E i \in DOMAIN usage : usage[i] = x
  \/ \E c \in Callers : call[c].pc = "log" /\ call[c].n = x.n

\* Every call that was carried out has its row, or is about to write it.
UsageInv ==
  /\ Numbered /\ Apart
  /\ \A c \in Callers : CallUsage(call[c])
  /\ faults = 0 => \A x \in answered : Logged(x)

\* The sealed secrets are the ones last put into the configuration.
AuthInv ==
  /\ DOMAIN auths \subseteq DOMAIN put
  /\ \A a \in DOMAIN auths : auths[a].sealed = [with |-> AdminKey, secrets |-> put[a]]

\* No other request and no row has the number of r.
Fresh(c, r) ==
  /\ r.n \in 1..served'
  /\ \A d \in Callers \ {c} : call[d].n # r.n
  /\ \A x \in answered : x.n # r.n

\* The request is over.
Over(r) == r.pc = "idle" /\ r.n = 0

\* What becomes of a request: it ends, goes on, or has carried out its operation.
Becomes(r) ==
  \/ Over(r) /\ answered' = answered
  \/ /\ r.pc \in {"load", "store", "auth", "send"} /\ answered' = answered
     /\ r.pc \in {"auth", "send"} => r.row.path = r.req.path
  \/ r.pc = "log" /\ answered' = answered \cup {[n |-> r.n, path |-> r.req.path, status |-> r.status]}

\* Rows stand for operations carried out.
LEMMA RowsAnswered ==
  ASSUME Numbered
  PROVE  \A i \in DOMAIN usage : usage[i] \in answered
<1>1. usage \in [1..Len(usage) -> answered]
  BY LenProperties DEF Numbered
<1> QED BY <1>1

\* A request that has carried out nothing yet makes a step.
LEMMA UsageMoves ==
  ASSUME CallInv, UsageInv, NEW c \in Callers, NEW r, Move(c, r), usage' = usage,
         served' \in Nat, served' >= served, faults' \in Nat, faults' = 0 => faults = 0,
         call[c].pc # "log", Becomes(r), Over(r) \/ Fresh(c, r)
  PROVE  UsageInv'
<1>1. /\ call'[c] = r
      /\ \A d \in Callers \ {c} : call'[d] = call[d]
  BY DEF Move, CallInv
<1>3. \A i \in DOMAIN usage : usage[i] \in answered
  BY RowsAnswered DEF UsageInv
<1>4. \A x \in answered : x.n \in 1..served
  BY DEF UsageInv, Numbered
<1> DEFINE a == [n |-> r.n, path |-> r.req.path, status |-> r.status]
<1>5. a.n = r.n
  OBVIOUS
<1>6. \/ answered' = answered /\ r.pc # "log"
      \/ answered' = answered \cup {a} /\ r.pc = "log" /\ Fresh(c, r)
  BY DEF Becomes, Over
<1>7. Numbered'
  <2>1. usage' \in Seq(answered')
    <3>1. usage \in Seq(answered) /\ answered \subseteq answered'
      BY <1>6 DEF UsageInv, Numbered
    <3>2. usage \in Seq(answered')
      BY <3>1, SeqMonotonic
    <3> QED BY <3>2
  <2>2. \A x \in answered' : x.n \in 1..served'
    <3>1. \A x \in answered : x.n \in 1..served'
      BY <1>4 DEF UsageInv, Numbered
    <3> HIDE DEF a
    <3> QED BY <1>5, <1>6, <3>1 DEF Fresh
  <2>3. \A x, y \in answered' : x.n = y.n => x = y
    <3> HIDE DEF a
    <3> QED BY <1>5, <1>6 DEF UsageInv, Numbered, Fresh
  <2> QED BY <2>1, <2>2, <2>3 DEF UsageInv, Numbered
<1>8. Apart'
  BY <1>1 DEF UsageInv, Apart, Fresh, Over
<1>9. ASSUME NEW d \in Callers PROVE CallUsage(call[d])'
  <2>1. CASE d # c
    <3>1. CallUsage(call[d]) /\ call'[d] = call[d]
      BY <1>1, <2>1 DEF UsageInv
    <3>2. answered \subseteq answered' /\ \A x \in answered' : x \in answered \/ x.n # call[d].n
      <4> HIDE DEF a
      <4> QED BY <1>5, <1>6, <2>1 DEF Fresh
    <3>3. call[d].n \in 0..served'
      BY <3>1 DEF CallUsage, UsageInv, Numbered
    <3> QED BY <3>1, <3>2, <3>3 DEF CallUsage
  <2>2. CASE d = c /\ Over(r)
    <3>1. \A i \in DOMAIN usage : usage[i].n # 0
      BY <1>3, <1>4
    <3>2. 0 \in 0..served'
      OBVIOUS
    <3> QED BY <1>1, <2>2, <3>1, <3>2 DEF CallUsage, Over
  <2>3. CASE d = c /\ ~Over(r)
    <3>1. Fresh(c, r)
      BY <2>3
    <3>2. \A i \in DOMAIN usage : usage[i].n # r.n
      BY <1>3, <3>1 DEF Fresh
    <3>3. r.n \in 0..served' /\ r.n # 0
      BY <3>1 DEF Fresh
    <3>4. r.pc # "idle" /\ (r.pc \in {"auth", "send"} => r.row.path = r.req.path)
      BY <2>3 DEF Becomes
    <3>5. r.pc = "log" => a \in answered'
      BY <1>6
    <3>6. r.pc # "log" => \A x \in answered' : x.n # r.n
      BY <1>6, <3>1 DEF Fresh
    <3> QED BY <1>1, <2>3, <3>2, <3>3, <3>4, <3>5, <3>6 DEF CallUsage
  <2> QED BY <2>1, <2>2, <2>3
<1>10. ASSUME faults' = 0, NEW x \in answered' PROVE Logged(x)'
  <2>1. CASE x \in answered
    <3>1. Logged(x)
      BY <1>10, <2>1 DEF UsageInv
    <3> QED BY <1>1, <3>1 DEF Logged
  <2>2. CASE x = a /\ r.pc = "log"
    BY <1>1, <1>5, <2>2 DEF Logged
  <2> QED BY <1>6, <2>1, <2>2
<1> QED BY <1>7, <1>8, <1>9, <1>10 DEF UsageInv

\* A request that has carried out its operation ends, with its row or, when
\* something fails, without one.
LEMMA UsageEnds ==
  ASSUME CallInv, UsageInv, NEW c \in Callers, End(c), UNCHANGED <<answered, served>>,
         call[c].pc = "log",
         \/ LogUsage(c) /\ faults' = faults
         \/ usage' = usage /\ faults' \in Nat \ {0}
  PROVE  UsageInv'
<1> DEFINE a == [n |-> call[c].n, path |-> call[c].req.path, status |-> call[c].status]
           m == Len(usage)
<1>1. /\ call'[c] = Idle
      /\ \A d \in Callers \ {c} : call'[d] = call[d]
  BY DEF End, Move, CallInv
<1>2. Idle.pc = "idle" /\ Idle.n = 0
  BY DEF Idle
<1>3. CallUsage(call[c]) /\ a \in answered /\ a.n = call[c].n /\ call[c].n # 0
  BY DEF UsageInv, CallUsage
<1>4. \A i \in DOMAIN usage : usage[i] \in answered
  BY RowsAnswered DEF UsageInv
<1>5. \/ usage' = usage /\ faults' \in Nat \ {0}
      \/ usage' = Append(usage, a) /\ faults' = faults
  BY DEF LogUsage
<1> HIDE DEF a
<1>6. m \in Nat /\ DOMAIN usage = 1..m
  BY LenProperties DEF UsageInv, Numbered
<1>7. usage' = Append(usage, a) =>
        /\ usage' \in Seq(answered) /\ DOMAIN usage' = 1..(m + 1)
        /\ usage'[m + 1] = a /\ \A i \in 1..m : usage'[i] = usage[i]
  <2>1. usage \in Seq(answered)
    BY DEF UsageInv, Numbered
  <2>2. Append(usage, a) \in Seq(answered) /\ Len(Append(usage, a)) = m + 1
        /\ Append(usage, a)[m + 1] = a /\ \A i \in 1..m : Append(usage, a)[i] = usage[i]
    BY <1>3, <2>1, AppendProperties
  <2>3. DOMAIN Append(usage, a) = 1..(m + 1)
    BY <2>2, LenProperties
  <2> QED BY <2>2, <2>3
<1> HIDE DEF m
<1>8. \A i \in DOMAIN usage' : (i \in DOMAIN usage /\ usage'[i] = usage[i]) \/ (i = m + 1 /\ usage'[i] = a)
  <2>1. \A i \in 1..(m + 1) : i \in 1..m \/ i = m + 1
    BY <1>6
  <2> QED BY <1>5, <1>6, <1>7, <2>1
<1>9. Numbered'
  <2>1. usage' \in Seq(answered)
    BY <1>5, <1>7 DEF UsageInv, Numbered
  <2>2. ASSUME NEW i \in DOMAIN usage', NEW j \in DOMAIN usage', usage'[i].n = usage'[j].n PROVE i = j
    <3>1. \A k \in DOMAIN usage : usage[k].n # a.n
      BY <1>3 DEF CallUsage
    <3>2. \A k, l \in DOMAIN usage : usage[k].n = usage[l].n => k = l
      BY DEF UsageInv, Numbered
    <3> QED BY <1>8, <2>2, <3>1, <3>2
  <2>3. faults' \in Nat
    BY <1>5 DEF UsageInv, Numbered
  <2> QED BY <2>1, <2>2, <2>3 DEF UsageInv, Numbered
<1>10. Apart'
  BY <1>1, <1>2 DEF UsageInv, Apart
<1>11. ASSUME NEW d \in Callers PROVE CallUsage(call[d])'
  <2>1. CASE d # c
    <3>1. CallUsage(call[d]) /\ call'[d] = call[d]
      BY <1>1, <2>1 DEF UsageInv
    <3>2. call[d].n # a.n
      BY <1>3, <2>1 DEF UsageInv, Apart
    <3>3. \A i \in DOMAIN usage' : usage'[i].n # call[d].n
      BY <1>8, <3>1, <3>2 DEF CallUsage
    <3> QED BY <3>1, <3>3 DEF CallUsage
  <2>2. CASE d = c
    <3>1. \A i \in DOMAIN usage' : usage'[i].n # 0
      BY <1>3, <1>4, <1>8 DEF UsageInv, Numbered
    <3>2. 0 \in 0..served
      BY DEF UsageInv, Numbered
    <3> QED BY <1>1, <1>2, <2>2, <3>1, <3>2 DEF CallUsage
  <2> QED BY <2>1, <2>2
<1>12. ASSUME faults' = 0, NEW x \in answered PROVE Logged(x)'
  <2>1. usage' = Append(usage, a) /\ faults = 0
    BY <1>5, <1>12
  <2>2. m + 1 \in DOMAIN usage' /\ usage'[m + 1] = a
    BY <1>6, <1>7, <2>1
  <2>3. CASE x = a
    BY <2>2, <2>3 DEF Logged
  <2>4. CASE x # a
    <3>1. x.n # a.n
      BY <1>3, <2>4 DEF UsageInv, Numbered
    <3>2. Logged(x)
      BY <2>1 DEF UsageInv
    <3>3. CASE \E i \in DOMAIN usage : usage[i] = x
      <4>1. DOMAIN usage \subseteq DOMAIN usage'
        BY <1>6, <1>7, <2>1
      <4> QED BY <1>6, <1>7, <2>1, <3>3, <4>1 DEF Logged
    <3>4. CASE \E d \in Callers : call[d].pc = "log" /\ call[d].n = x.n
      BY <1>1, <1>3, <3>1, <3>4 DEF Logged
    <3> QED BY <3>2, <3>3, <3>4 DEF Logged
  <2> QED BY <2>3, <2>4
<1> QED BY <1>9, <1>10, <1>11, <1>12 DEF UsageInv

\* A request keeps its number, and a new one gets the next.
LEMMA NumbersFresh ==
  ASSUME CallInv, UsageInv, NEW c \in Callers, NEW r
  PROVE  /\ call[c].pc \notin {"idle", "log"} /\ served' = served /\ r.n = call[c].n => Fresh(c, r)
         /\ served' = served + 1 /\ r.n = served + 1 => Fresh(c, r)
<1>1. served \in Nat /\ \A x \in answered : x.n \in 1..served
  BY DEF UsageInv, Numbered
<1>2. \A d \in Callers : call[d].n \in 0..served
  BY DEF UsageInv, CallUsage
<1>3. ASSUME call[c].pc \notin {"idle", "log"}, served' = served, r.n = call[c].n PROVE Fresh(c, r)
  <2>1. call[c].n # 0 /\ \A x \in answered : x.n # call[c].n
    BY <1>3 DEF UsageInv, CallUsage
  <2>2. \A d \in Callers \ {c} : call[d].n # call[c].n
    BY <2>1 DEF UsageInv, Apart
  <2>3. r.n \in 1..served'
    BY <1>1, <1>2, <1>3, <2>1
  <2> QED BY <1>3, <2>1, <2>2, <2>3 DEF Fresh
<1>4. ASSUME served' = served + 1, r.n = served + 1 PROVE Fresh(c, r)
  <2>1. \A d \in Callers : call[d].n # served + 1
    BY <1>1, <1>2
  <2>2. \A x \in answered : x.n # served + 1
    BY <1>1
  <2> QED BY <1>1, <1>4, <2>1, <2>2 DEF Fresh
<1> QED BY <1>3, <1>4

\* Routing ends a request, leads it to its upstream, or carries it out.
LEMMA RoutedUsage ==
  ASSUME CallInv, UsageInv, NEW c \in Callers, NEW R, call[c].pc \in {"load", "store"}, Routed(c, R),
         UNCHANGED <<usage, served, faults>>
  PROVE  UsageInv'
<1>1. served \in Nat /\ faults \in Nat /\ served' >= served
  BY DEF UsageInv, Numbered
<1>2. CASE (End(c) \/ AnswerList(c, R)) /\ UNCHANGED answered
  <2>1. PICK r : Move(c, r) /\ Over(r)
    BY <1>2 DEF End, AnswerList, Idle, Over
  <2>2. Becomes(r)
    BY <1>2, <2>1 DEF Becomes
  <2> QED BY <1>1, <2>1, <2>2, UsageMoves
<1>3. CASE \E x \in R : x.path = call[c].req.path /\ Serve(c, x) /\ ~(End(c) /\ UNCHANGED answered)
  <2>1. PICK x \in R : x.path = call[c].req.path /\ Serve(c, x)
    BY <1>3
  <2>2. PICK pc, st :
          LET r == With(c, x, pc, st) IN
          /\ Move(c, r)
          /\ \/ pc \in {"send", "auth"} /\ UNCHANGED answered
             \/ pc = "log" /\ Answered(c, x.path, st)
    BY <1>3, <2>1 DEF Serve
  <2> DEFINE r == With(c, x, pc, st)
  <2>3. r.pc = pc /\ r.n = call[c].n /\ r.req = call[c].req /\ r.row = x /\ r.status = st
    BY DEF With, Idle
  <2>4. Move(c, r)
    BY <2>2
  <2> HIDE DEF r
  <2>5. call'[c] = r
    BY <2>4 DEF Move, CallInv
  <2>6. Becomes(r)
    BY <2>1, <2>2, <2>3, <2>5 DEF Becomes, Answered, r
  <2>7. Fresh(c, r)
    BY <2>3, NumbersFresh
  <2> QED BY <1>1, <2>4, <2>6, <2>7, UsageMoves
<1> QED BY <1>2, <1>3 DEF Routed

\* A step of a request.
LEMMA RequestUsage ==
  ASSUME CallInv, UsageInv, NEW c \in Callers, CallerNext(c), UNCHANGED faults
  PROVE  UsageInv'
<1>1. served \in Nat /\ faults \in Nat /\ served + 1 \in Nat /\ served + 1 >= served /\ served >= served
  BY DEF UsageInv, Numbered
<1>2. ASSUME NEW r, Move(c, r), UNCHANGED <<answered, usage, served>>, call[c].pc \notin {"idle", "log"},
             \/ Over(r)
             \/ /\ r.n = call[c].n /\ r.pc \in {"load", "store", "auth", "send"}
                /\ r.pc \in {"auth", "send"} => r.row.path = r.req.path
      PROVE  UsageInv'
  BY <1>1, <1>2, NumbersFresh, UsageMoves DEF Becomes
<1>3. {"pc", "n", "req", "row", "rows", "lag", "whole", "key", "status"} \subseteq DOMAIN call[c]
  BY DEF CallInv, CallFields, Idle
<1>4. ASSUME NEW req, Dynamic(c, req) PROVE UsageInv'
  <2> DEFINE r == [Idle EXCEPT !.pc = "load", !.n = served + 1, !.req = req]
  <2>1. r.pc = "load" /\ r.n = served + 1
    BY DEF Idle
  <2>2. Move(c, r) /\ served' = served + 1 /\ UNCHANGED <<answered, usage>> /\ call[c].pc = "idle"
    BY <1>4 DEF Dynamic
  <2> HIDE DEF r
  <2>3. Fresh(c, r) /\ Becomes(r)
    BY <2>1, <2>2, NumbersFresh DEF Becomes
  <2> QED BY <1>1, <2>2, <2>3, UsageMoves
<1>5. ASSUME NEW req, canonicalHandler(c, req) PROVE UsageInv'
  <2>1. served' = served + 1 /\ usage' = usage /\ call[c].pc = "idle"
    BY <1>5 DEF canonicalHandler
  <2>2. CASE End(c) /\ UNCHANGED answered
    <3>1. Move(c, Idle) /\ Over(Idle) /\ Becomes(Idle)
      BY <2>2 DEF End, Becomes, Over, Idle
    <3> QED BY <1>1, <2>1, <3>1, UsageMoves
  <2> DEFINE r == [Idle EXCEPT !.pc = "log", !.n = served + 1, !.req = req, !.status = "200"]
  <2>3. CASE Move(c, r) /\ Answered(c, req.path, "200")
    <3>1. r.pc = "log" /\ r.n = served + 1 /\ r.req = req /\ r.status = "200"
      BY DEF Idle
    <3> HIDE DEF r
    <3>2. call'[c] = r
      BY <2>3 DEF Move, CallInv
    <3>3. Fresh(c, r) /\ Becomes(r)
      BY <2>1, <2>3, <3>1, <3>2, NumbersFresh DEF Becomes, Answered
    <3> QED BY <1>1, <2>1, <2>3, <3>3, UsageMoves
  <2> QED BY <1>5, <2>2, <2>3 DEF canonicalHandler
<1>6. CASE LoadCached(c)
  BY <1>6, RoutedUsage DEF LoadCached
<1>7. CASE Store(c)
  BY <1>7, RoutedUsage DEF Store
<1>8. CASE LoadQuery(c)
  BY <1>2, <1>3, <1>8 DEF LoadQuery, Fetched
<1>9. CASE LookupAuth(c)
  <2>1. call[c].row.path = call[c].req.path
    BY <1>9 DEF LookupAuth, UsageInv, CallUsage
  <2> QED BY <1>2, <1>3, <1>9, <2>1 DEF LookupAuth
<1>10. ASSUME NEW status, Answer(c, status) PROVE UsageInv'
  <2> DEFINE r == [call[c] EXCEPT !.pc = "log", !.status = status]
  <2>1. Move(c, r) /\ call[c].pc = "send" /\ UNCHANGED <<usage, served>>
    BY <1>10 DEF Answer
  <2>2. r.pc = "log" /\ r.n = call[c].n /\ r.req = call[c].req /\ r.status = status
    BY <1>3
  <2>3. call[c].row.path = call[c].req.path
    BY <2>1 DEF UsageInv, CallUsage
  <2> HIDE DEF r
  <2>4. call'[c] = r
    BY <2>1 DEF Move, CallInv
  <2>5. Becomes(r)
    BY <1>10, <2>2, <2>3, <2>4 DEF Answer, Answered, Becomes
  <2>6. Fresh(c, r)
    BY <2>1, <2>2, NumbersFresh
  <2> QED BY <1>1, <2>1, <2>5, <2>6, UsageMoves
<1>11. CASE AnswerFails(c)
  BY <1>2, <1>11 DEF AnswerFails, End, Over, Idle
<1>12. CASE LogUsage(c)
  BY <1>12, UsageEnds DEF LogUsage
<1> QED BY <1>4, <1>5, <1>6, <1>7, <1>8, <1>9, <1>10, <1>11, <1>12 DEF CallerNext, Step

\* A statement of a request fails, or the service stops.
LEMMA FaultUsage ==
  ASSUME CallInv, UsageInv, ServiceFault, faults' = faults + 1
  PROVE  UsageInv'
<1>1. served \in Nat /\ faults \in Nat /\ faults' \in Nat \ {0} /\ served >= served
  BY DEF UsageInv, Numbered
<1>2. ASSUME NEW c \in Callers, NEW r, Move(c, r), UNCHANGED <<answered, usage, served>>,
             call[c].pc \notin {"idle", "log"},
             \/ Over(r)
             \/ /\ r.n = call[c].n /\ r.pc \in {"load", "store", "auth", "send"}
                /\ r.pc \in {"auth", "send"} => r.row.path = r.req.path
      PROVE  UsageInv'
  BY <1>1, <1>2, NumbersFresh, UsageMoves DEF Becomes
<1>3. \A c \in Callers : {"pc", "n", "req", "row", "rows", "lag", "whole", "key", "status"} \subseteq DOMAIN call[c]
  BY DEF CallInv, CallFields, Idle
<1>4. ASSUME NEW c \in Callers, LoadBreaksOff(c) PROVE UsageInv'
  <2>1. PICK rows : Fetched(c, rows, FALSE)
    BY <1>4 DEF LoadBreaksOff
  <2> QED BY <1>2, <1>3, <1>4, <2>1 DEF LoadBreaksOff, Fetched
<1>5. ASSUME NEW c \in Callers, LoadFails(c) PROVE UsageInv'
  BY <1>2, <1>5 DEF LoadFails, End, Over, Idle
<1>6. ASSUME NEW c \in Callers, LookupAuthFails(c) PROVE UsageInv'
  <2>1. call[c].row.path = call[c].req.path
    BY <1>6 DEF LookupAuthFails, UsageInv, CallUsage
  <2> QED BY <1>2, <1>3, <1>6, <2>1 DEF LookupAuthFails
<1>7. ASSUME NEW c \in Callers, LogUsageFails(c) PROVE UsageInv'
  BY <1>1, <1>7, UsageEnds DEF LogUsageFails
<1>8. CASE Restart
  <2>1. \A c \in Callers : call'[c].pc = "idle" /\ call'[c].n = 0
    BY <1>8 DEF Restart, Idle
  <2>2. UNCHANGED <<served, answered, usage>>
    BY <1>8 DEF Restart
  <2>3. Numbered'
    BY <1>1, <2>2 DEF UsageInv, Numbered
  <2>4. Apart'
    BY <2>1 DEF Apart
  <2>5. ASSUME NEW c \in Callers PROVE CallUsage(call[c])'
    <3>1. \A i \in DOMAIN usage : usage[i] \in answered
      BY RowsAnswered DEF UsageInv
    <3>2. \A i \in DOMAIN usage : usage[i].n # 0
      BY <3>1 DEF UsageInv, Numbered
    <3>3. 0 \in 0..served
      BY <1>1
    <3> QED BY <2>1, <2>2, <3>2, <3>3 DEF CallUsage
  <2> QED BY <1>1, <2>3, <2>4, <2>5 DEF UsageInv
<1> QED BY <1>4, <1>5, <1>6, <1>7, <1>8 DEF ServiceFault

\* A step that leaves the requests where they are.
LEMMA UsageStays ==
  ASSUME UsageInv, UNCHANGED <<served, answered, usage>>, faults' \in Nat, faults' = 0 => faults = 0,
         \A c \in Callers : /\ call'[c].pc = call[c].pc /\ call'[c].n = call[c].n
                            /\ call'[c].req = call[c].req /\ call'[c].row = call[c].row
                            /\ call'[c].status = call[c].status
  PROVE  UsageInv'
<1>1. Numbered'
  BY DEF UsageInv, Numbered
<1>2. Apart'
  BY DEF UsageInv, Apart
<1>3. ASSUME NEW c \in Callers PROVE CallUsage(call[c])'
  BY DEF UsageInv, CallUsage
<1>4. ASSUME faults' = 0, NEW x \in answered PROVE Logged(x)'
  BY <1>4 DEF UsageInv, Logged
<1> QED BY <1>1, <1>2, <1>3, <1>4 DEF UsageInv

\* No step makes a usage row lie.
LEMMA NextKeepsUsage == CacheInv /\ UsageInv /\ [ServiceNext]_systemVars => UsageInv'
<1> SUFFICES ASSUME CacheInv, UsageInv, [ServiceNext]_systemVars PROVE UsageInv'
  OBVIOUS
<1>0. CallInv /\ faults \in Nat
  BY DEF CacheInv, UsageInv, Numbered
<1>1. CASE RequestNext
  BY <1>0, <1>1, RequestUsage, FaultUsage DEF RequestNext
<1>2. CASE TablesNext
  <2>1. faults' \in {faults, faults + 1}
    BY <1>2 DEF TablesNext, ConnectorNext
  <2>2. faults' \in Nat /\ (faults' = 0 => faults = 0)
    BY <1>0, <2>1
  <2> QED BY <1>2, <2>2, UsageStays DEF TablesNext, serviceVars
<1>3. CASE AuthNext
  BY <1>0, <1>3, UsageStays DEF AuthNext, AuthAdmin, serviceVars
<1>4. CASE Tick
  <2>1. ASSUME NEW c \in Callers
        PROVE  /\ call'[c].pc = call[c].pc /\ call'[c].n = call[c].n
               /\ call'[c].req = call[c].req /\ call'[c].row = call[c].row
               /\ call'[c].status = call[c].status
    <3>1. call'[c] = call[c] \/ call'[c] = [call[c] EXCEPT !.lag = @ + 1]
      BY <1>4 DEF Tick
    <3>2. {"pc", "n", "req", "row", "lag", "status"} \subseteq DOMAIN call[c]
      BY <1>0 DEF CallInv, CallFields, Idle
    <3> QED BY <3>1, <3>2
  <2>2. UNCHANGED <<served, answered, usage, faults>>
    BY <1>4 DEF Tick, connectorVars
  <2> QED BY <1>0, <2>1, <2>2, UsageStays
<1>5. CASE UNCHANGED systemVars
  BY <1>0, <1>5, UsageStays DEF systemVars, serviceVars, connectorVars
<1> QED BY <1>1, <1>2, <1>3, <1>4, <1>5 DEF ServiceNext

\* The invariant on usage rows.
LEMMA UsageInvariant == ServiceSpec => []UsageInv
<1>1. ServiceInit => UsageInv
  <2> SUFFICES ASSUME ServiceInit PROVE UsageInv
    OBVIOUS
  <2>1. usage = <<>> /\ answered = {} /\ served = 0 /\ faults = 0
    BY DEF ServiceInit, ConnectorInit
  <2>2. DOMAIN usage = {} /\ usage \in Seq(answered)
    BY <2>1
  <2>3. \A c \in Callers : call[c].pc = "idle" /\ call[c].n = 0
    BY DEF ServiceInit, Idle
  <2>4. Numbered
    BY <2>1, <2>2 DEF Numbered
  <2>5. \A c \in Callers : CallUsage(call[c])
    BY <2>1, <2>2, <2>3 DEF CallUsage
  <2> QED BY <2>1, <2>3, <2>4, <2>5 DEF UsageInv, Apart
<1> QED BY <1>1, NextKeepsUsage, CacheInvariant, PTL DEF ServiceSpec

\* Usage rows tell the truth (handler.go, logUsage): each stands for one
\* operation carried out, with its status, and while nothing fails every one
\* gets its row; for any number of callers, whatever they ask for.
THEOREM UsageTold == ServiceSpec => []UsageTruthful
<1>1. UsageInv => UsageTruthful
  BY RowsAnswered DEF UsageInv, UsageTruthful, Numbered, Rows, Logged
<1> QED BY <1>1, UsageInvariant, PTL
-----------------------------------------------------------------------------
(* Keys of outgoing calls *)

\* An admin's request keeps what was sealed and what was put the same.
LEMMA AuthKeeps ==
  ASSUME AuthInv, AuthAdmin
  PROVE  AuthInv'
<1>1. PICK a \in AuthIds :
        \/ \E b \in AuthBodies : createAuth(a, b.type, b.config, b.secrets)
        \/ \E b \in AuthBodies : updateAuth(a, b.type, b.config, b.secrets)
        \/ deleteAuth(a)
  BY DEF AuthAdmin
<1>2. ASSUME NEW type, NEW config, NEW secrets, createAuth(a, type, config, secrets) PROVE AuthInv'
  BY <1>2 DEF AuthInv, createAuth, encryptJSON
<1>3. ASSUME NEW type, NEW config, NEW secrets, updateAuth(a, type, config, secrets) PROVE AuthInv'
  <2> DEFINE row == [type   |-> IF type = Null THEN auths[a].type ELSE type,
                     config |-> IF config = Null THEN auths[a].config ELSE config,
                     sealed |-> IF secrets = Null THEN auths[a].sealed ELSE encryptJSON(secrets)]
  <2>1. /\ a \in DOMAIN auths /\ auths' = [auths EXCEPT ![a] = row]
        /\ put' = [put EXCEPT ![a] = IF secrets = Null THEN put[a] ELSE secrets]
    BY <1>3 DEF updateAuth
  <2>2. row.sealed = IF secrets = Null THEN auths[a].sealed ELSE encryptJSON(secrets)
    OBVIOUS
  <2> HIDE DEF row
  <2>3. row.sealed = [with |-> AdminKey, secrets |-> put'[a]]
    BY <2>1, <2>2 DEF AuthInv, encryptJSON, Presence
  <2> QED BY <2>1, <2>3 DEF AuthInv
<1>4. ASSUME deleteAuth(a) PROVE AuthInv'
  BY <1>4 DEF AuthInv, deleteAuth
<1> QED BY <1>1, <1>2, <1>3, <1>4

\* The invariant on the auth configurations.
LEMMA AuthInvariant == ServiceSpec => []AuthInv
<1>1. ServiceInit => AuthInv
  <2> SUFFICES ASSUME ServiceInit PROVE AuthInv
    OBVIOUS
  <2>1. /\ put = AuthsFound /\ DOMAIN auths = DOMAIN AuthsFound
        /\ \A a \in DOMAIN AuthsFound : auths[a].sealed = encryptJSON(AuthsFound[a])
    BY DEF ServiceInit
  <2> QED BY <2>1, ConnectorServiceAssumption DEF AuthInv, encryptJSON, Presence
<1>2. AuthInv /\ [ServiceNext]_systemVars => AuthInv'
  <2> SUFFICES ASSUME AuthInv, [ServiceNext]_systemVars PROVE AuthInv'
    OBVIOUS
  <2>1. CASE UNCHANGED authVars
    BY <2>1 DEF authVars, AuthInv
  <2>2. CASE AuthNext
    BY <2>2, AuthKeeps DEF AuthNext
  <2> QED BY <2>1, <2>2 DEF ServiceNext, TablesNext, RequestNext, Tick, systemVars
<1> QED BY <1>1, <1>2, PTL DEF ServiceSpec

\* An outgoing call carries the plain key of its configuration or the secret
\* last put into it (crypto.go, handler.go), whatever admins' requests for the
\* configurations came between.
THEOREM KeyIsSent == ServiceSpec => KeySent
<1>1. CacheInv /\ UsageInv /\ AuthInv /\ [ServiceNext]_systemVars =>
        [\A c \in Callers :
           LET a == call[c].row.auth IN
           /\ call[c].pc = "auth" /\ call'[c].pc = "send"
           /\ faults' = faults /\ ServiceKey # Null /\ AdminKey = ServiceKey
           => call'[c].key = CASE a \notin DOMAIN auths \/ auths[a].type # "api_key" -> {}
                               [] auths[a].config # {} -> auths[a].config
                               [] OTHER -> put[a]]_systemVars
  <2> SUFFICES ASSUME CacheInv, UsageInv, AuthInv, ServiceNext, NEW c \in Callers,
                      call[c].pc = "auth", call'[c].pc = "send", faults' = faults,
                      ServiceKey # Null, AdminKey = ServiceKey
               PROVE  LET a == call[c].row.auth IN
                      call'[c].key = CASE a \notin DOMAIN auths \/ auths[a].type # "api_key" -> {}
                                       [] auths[a].config # {} -> auths[a].config
                                       [] OTHER -> put[a]
    BY Zenon
  <2> DEFINE a == call[c].row.auth
  <2>1. CallInv /\ faults \in Nat /\ faults' # faults + 1
    BY DEF CacheInv, UsageInv, Numbered
  <2>2. call'[c] # call[c]
    OBVIOUS
  <2>3. ASSUME UNCHANGED call PROVE FALSE
    BY <2>2, <2>3
  <2>4. ASSUME Tick PROVE FALSE
    <3>1. call'[c] = IF call[c].pc = "store" THEN [call[c] EXCEPT !.lag = @ + 1] ELSE call[c]
      BY <2>4 DEF Tick
    <3> QED BY <2>2, <3>1
  <2>5. PICK d \in Callers : CallerNext(d)
    <3>1. ~TablesNext /\ ~AuthNext
      BY <2>3 DEF TablesNext, AuthNext, serviceVars
    <3>2. RequestNext
      BY <2>4, <3>1 DEF ServiceNext
    <3> QED BY <2>1, <3>2 DEF RequestNext
  <2>6. d = c
    BY <2>1, <2>2, <2>5, CallerMoves DEF Move, CallInv
  <2>7. LookupAuth(c)
    BY <2>5, <2>6 DEF CallerNext, Step, Dynamic, canonicalHandler, LoadCached, LoadQuery, Store,
                      Answer, AnswerFails, LogUsage
  <2>8. call'[c].key = ApiKey(a)
    <3>1. {"pc", "key"} \subseteq DOMAIN call[c]
      BY <2>1 DEF CallInv, CallFields, Idle
    <3> QED BY <2>1, <2>7, <3>1 DEF LookupAuth, Move, CallInv
  <2> HIDE DEF a
  <2>9. ASSUME a \in DOMAIN auths PROVE decryptSecrets(auths[a].sealed) = put[a]
    <3> DEFINE blob == auths[a].sealed
    <3>0. blob = [with |-> AdminKey, secrets |-> put[a]]
      BY <2>9, Zenon DEF AuthInv
    <3> HIDE DEF blob
    <3>1. blob.with = AdminKey /\ blob.secrets = put[a]
      BY <3>0
    <3>2. decryptSecrets(blob) = put[a]
      BY <3>1 DEF decryptSecrets
    <3> QED BY <3>2 DEF blob
  <2>10. call'[c].key = CASE a \notin DOMAIN auths \/ auths[a].type # "api_key" -> {}
                          [] auths[a].config # {} -> auths[a].config
                          [] OTHER -> put[a]
    BY <2>8, <2>9 DEF ApiKey
  <2> QED BY <2>10 DEF a
<1> QED BY <1>1, CacheInvariant, UsageInvariant, AuthInvariant, PTL DEF ServiceSpec, KeySent

-----------------------------------------------------------------------------
(* The tables beside the callers.  A step of the service is one of the      *)
(* connector administration, or leaves the tables, the admins' requests and *)
(* the starts alone; the latter may count a request for the auth            *)
(* configurations, or a fault.                                              *)

Beside ==
  /\ UNCHANGED <<tables, admin, boot, blind, boots>>
  /\ calls' \in {calls, calls + 1} /\ (calls' # calls => calls < MaxRequests)

\* Each step of the service is one or the other.
LEMMA ServiceStepsTables ==
  ASSUME [ServiceNext]_systemVars
  PROVE  [ConnectorNext]_connectorVars \/ Beside
<1>1. CASE TablesNext
  BY <1>1 DEF TablesNext
<1>2. CASE AuthNext
  BY <1>2 DEF AuthNext, AuthAdmin, Beside
<1>3. CASE RequestNext
  BY <1>3 DEF RequestNext, Beside
<1>4. CASE Tick \/ UNCHANGED systemVars
  BY <1>4 DEF Tick, systemVars
<1> QED BY <1>1, <1>2, <1>3, <1>4 DEF ServiceNext

\* So the invariant of the tables is kept.
LEMMA ServiceKeepsTables ==
  ConnectorInv /\ [ServiceNext]_systemVars => ConnectorInv'
<1> SUFFICES ASSUME ConnectorInv, [ServiceNext]_systemVars PROVE ConnectorInv'
  OBVIOUS
<1>1. CASE [ConnectorNext]_connectorVars
  BY <1>1, NextConnectorInv
<1>2. CASE Beside
  <2>1. CountInv'
    <3>1. calls \in Nat /\ calls <= MaxRequests /\ boots \in 0..MaxBoots /\ MaxRequests \in Nat
      BY ConnectorTablesAssumption DEF ConnectorInv, CountInv
    <3> QED BY <1>2, <3>1 DEF Beside, CountInv
  <2> QED BY <1>2, <2>1, TablesRest DEF Beside
<1> QED BY <1>1, <1>2, ServiceStepsTables

\* And that of the updates.
LEMMA ServiceKeepsUpdates ==
  ConnectorInv /\ ConnectorInv' /\ ReplaceInv /\ [ServiceNext]_systemVars => ReplaceInv'
<1> SUFFICES ASSUME ConnectorInv, ConnectorInv', ReplaceInv, [ServiceNext]_systemVars
             PROVE  ReplaceInv'
  OBVIOUS
<1>1. CASE [ConnectorNext]_connectorVars
  BY <1>1, NextReplaceInv
<1>2. CASE Beside
  BY <1>2, ReplaceRest DEF Beside
<1> QED BY <1>1, <1>2, ServiceStepsTables

\* Both hold throughout.
LEMMA ServiceTables == ServiceSpec => [](ConnectorInv /\ ReplaceInv)
<1>1. ServiceInit => ConnectorInv /\ ReplaceInv
  BY InitConnectorInv, InitReplaceInv DEF ServiceInit
<1> QED BY <1>1, ServiceKeepsTables, ServiceKeepsUpdates, PTL DEF ServiceSpec

\* Beside any callers, builtin definitions stay as the seed wrote them.
THEOREM ServedBuiltinsReadOnly == ServiceSpec => []BuiltinsIntact
  BY ServiceTables, BuiltinsKept, PTL

\* A manifest answered once the tables have been quiet is made from current
\* rows, so Execute finds its keys again (registry.go, LoadOperations;
\* manifest/service.go, BuildManifest; orchestrator/service.go, Execute).
THEOREM ServedManifestKeysResolve == ServiceSpec => ManifestKeysResolve
<1> DEFINE KeysStep ==
      \A c \in Callers :
        /\ call[c].pc \in {"load", "store"} /\ call'[c].pc = "idle"
        /\ quiet >= Bound
        => \A r \in call'[c].rows : KeyFound(r)
<1>1. CacheInv /\ ConnectorInv /\ [ServiceNext]_systemVars => [KeysStep]_systemVars
  <2> SUFFICES ASSUME CacheInv, ConnectorInv, ServiceNext, NEW c \in Callers,
                      call[c].pc \in {"load", "store"}, call'[c].pc = "idle", quiet >= Bound
               PROVE  \A r \in call'[c].rows : KeyFound(r)
    OBVIOUS
  <2>1. call'[c].rows \subseteq LoadView
    BY ListsCurrent
  <2> QED BY <2>1, KeysFound
<1> QED BY <1>1, CacheInvariant, ServiceTables, PTL DEF ServiceSpec, ManifestKeysResolve

\* An update that is answered ok and was not disturbed has left the operations
\* of its body, each once, for the callers to be routed by.
THEOREM ServedUpdatesReplace == ServiceSpec => UpdateReplaces
<1> DEFINE Replaced ==
      \A p \in Admins :
        LET r == admin[p]
            left == {o \in ops' : o.def = r.def /\ o.by = "admin"}
        IN
        /\ r.list # Null /\ r.alone /\ r.def \in Definitions
        /\ admin'[p] = NoRequest("ok")
        => /\ {[path |-> o.path, on |-> o.enabled] : o \in left} = Listed(r.list)
           /\ Cardinality(left) = Len(r.list)
<1>1. ConnectorInv /\ ReplaceInv /\ [ServiceNext]_systemVars => [Replaced]_connectorVars
  <2> SUFFICES ASSUME ConnectorInv, ReplaceInv, [ServiceNext]_systemVars PROVE Replaced
    OBVIOUS
  <2>1. CASE [ConnectorNext]_connectorVars
    BY <2>1, UpdateCompletes
  <2>2. CASE Beside
    <3>1. admin' = admin
      BY <2>2 DEF Beside
    <3>2. NoRequest("ok").list = Null
      BY DEF NoRequest
    <3> QED BY <3>1, <3>2
  <2> QED BY <2>1, <2>2, ServiceStepsTables
<1> QED BY <1>1, ServiceTables, PTL DEF ServiceSpec, UpdateReplaces
=============================================================================
