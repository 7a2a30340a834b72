----------------------------- MODULE AuthnProofs -----------------------------
(***************************************************************************)
(* Proofs about the JWKS cache and the admission of requests, for any      *)
(* number of requests, tenants, issuers, keys and failed fetches.          *)
(*                                                                         *)
(* KeysCurrent is not inductive: it does not say how old the answer of an  *)
(* issuer on its way is.  CacheAdvances needs besides that nobody else     *)
(* stores keys while an answer is on its way, which is what the lock gives.*)
(* RowsInv types what a verdict and a move of a request read.  Together    *)
(* they give the refinement of KeyGate.                                    *)
(***************************************************************************)
EXTENDS Authn, SequenceTheorems, TLAPS

KeyRange == [low : Nat, high : Nat]

Behind(k, l) == k.low <= l.low /\ k.high <= l.high

\* The keys r has fetched from u: no newer than the published ones, no older
\* than the cached ones, and the published ones if nothing changed since.
FetchedInv(r, u) ==
  /\ r.keys \in KeyRange
  /\ Behind(r.keys, published[u])
  /\ sets[u].keys # Null => Behind(sets[u].keys, r.keys)
  /\ quiet[u] > r.lag => r.keys = published[u]

\* Only the holder of the write lock fetches.
LockInv ==
  /\ DOMAIN thread = Threads
  /\ \A q \in Threads : DOMAIN thread[q] = DOMAIN Free
  /\ \A q \in Threads : thread[q].pc \in {"fetch", "store"} => lock = q

\* Every answer on its way is one that its issuer gave.
AnswerInv ==
  \A q \in Threads : thread[q].pc = "store" =>
    /\ thread[q].lag \in 0..MaxLag
    /\ Url(q) \in Urls => FetchedInv(thread[q], Url(q))

\* The keys stored for u are behind the published ones by no more than their age
\* and the lag.
StoredInv(u) ==
  /\ sets[u] = [keys |-> sets[u].keys, age |-> sets[u].age]
  /\ sets[u].age \in Nat
  /\ sets[u].keys # Null =>
       /\ sets[u].keys \in KeyRange
       /\ Behind(sets[u].keys, published[u])
       /\ quiet[u] > MaxLag + sets[u].age => sets[u].keys = published[u]

\* Every stored key set has its age, and is one that was published.
SetsInv ==
  /\ published \in [Urls -> KeyRange]
  /\ quiet \in [Urls -> 0..Bound]
  /\ DOMAIN sets = Urls
  /\ \A u \in Urls : StoredInv(u)

KeysInv == LockInv /\ AnswerInv /\ SetsInv

\* The bounds are numbers, and the quiet time is the lag and the lifetime.
LEMMA BoundNat ==
  Bound \in Nat /\ MaxLag \in Nat /\ TTL \in Nat /\ TTL > 0 /\ Bound = MaxLag + TTL
  BY AuthnAssumption DEF Bound

\* Being behind is transitive: an answer behind the published keys stays behind.
LEMMA BehindTransitive ==
  \A k, l, m \in KeyRange : Behind(k, l) /\ Behind(l, m) => Behind(k, m)
  BY DEF KeyRange, Behind

\* At the start nothing is cached and no fetch is under way.
LEMMA InitKeys == AuthnInit => KeysInv
<1> SUFFICES ASSUME AuthnInit PROVE KeysInv
  OBVIOUS
<1>1. LockInv /\ AnswerInv
  BY DEF AuthnInit, LockInv, AnswerInv, Free
<1>2. SetsInv
  BY BoundNat DEF AuthnInit, SetsInv, StoredInv, KeyRange
<1> QED BY <1>1, <1>2 DEF KeysInv

\* A request goes on or ends, without the lock and with the cache and the keys
\* as they are.
LEMMA ThreadMoves ==
  ASSUME KeysInv, NEW q \in Threads, NEW r, Put(q, r), DOMAIN r = DOMAIN Free,
         r.pc \notin {"fetch", "store"}, UNCHANGED <<published, quiet, sets>>,
         lock' = lock \/ (lock = q /\ lock' = Null)
  PROVE  KeysInv'
<1>1. \A p \in Threads : thread'[p] = IF p = q THEN r ELSE thread[p]
  BY DEF Put, KeysInv, LockInv
<1>2. LockInv'
  BY <1>1, AuthnAssumption DEF KeysInv, LockInv, Put
<1>3. AnswerInv'
  BY <1>1 DEF KeysInv, AnswerInv, FetchedInv, Url
<1>4. SetsInv'
  BY DEF KeysInv, SetsInv, StoredInv
<1> QED BY <1>2, <1>3, <1>4 DEF KeysInv

\* JWTAuth admits or refuses.
LEMMA VerdictIs == \A h, row, token, keys : Verdict(h, row, token, keys) \in {"admitted", "refused"}
  BY DEF Verdict

\* The fields of a request after its answer.
LEMMA DoneFields ==
  ASSUME NEW v \in {"admitted", "refused"}
  PROVE  LET r == [Free EXCEPT !.pc = v] IN DOMAIN r = DOMAIN Free /\ r.pc = v
  BY DEF Free

\* Arriving at the token check, passing in development, or being refused.
LEMMA ArrivalMoves ==
  ASSUME NEW q \in Threads, NEW hosts, NEW token, WithTenant(q, hosts, token)
  PROVE  /\ \E r : Put(q, r) /\ DOMAIN r = DOMAIN Free /\ r.pc \in {"check", "admitted", "refused"}
         /\ thread[q].pc \in {"free", "admitted", "refused"}
         /\ UNCHANGED <<published, quiet, sets, lock, tenant>>
<1>1. ASSUME NEW v \in {"admitted", "refused"}, Done(q, v)
      PROVE  \E r : Put(q, r) /\ DOMAIN r = DOMAIN Free /\ r.pc \in {"check", "admitted", "refused"}
  BY <1>1, DoneFields DEF Done
<1>2. ASSUME NEW h, JWTAuth(q, h, token)
      PROVE  \E r : Put(q, r) /\ DOMAIN r = DOMAIN Free /\ r.pc \in {"check", "admitted", "refused"}
  <2> DEFINE r == [Free EXCEPT !.pc = "check", !.host = h, !.token = token, !.row = tenant[h]]
  <2>1. DOMAIN r = DOMAIN Free /\ r.pc = "check"
    BY DEF Free
  <2>2. Done(q, "admitted") \/ Done(q, "refused") \/ Put(q, r)
    BY <1>2 DEF JWTAuth
  <2> QED BY <1>1, <2>1, <2>2
<1> QED BY <1>1, <1>2 DEF WithTenant

\* Being judged by a key set ends the request.
LEMMA JudgedMoves ==
  ASSUME NEW q \in Threads, NEW keys, Judged(q, keys)
  PROVE  \E r : Put(q, r) /\ DOMAIN r = DOMAIN Free /\ r.pc \in {"admitted", "refused"}
<1> DEFINE v == Verdict(thread[q].host, thread[q].row, thread[q].token, keys)
<1>1. v \in {"admitted", "refused"} /\ Done(q, v)
  BY VerdictIs DEF Judged
<1> HIDE DEF v
<1> QED BY <1>1, DoneFields DEF Done

\* The look at the cache under the read lock keeps the invariant.
LEMMA CheckKeeps == ASSUME KeysInv, NEW q \in Threads, Check(q) PROVE KeysInv'
<1>1. UNCHANGED <<published, quiet, sets, lock>>
  BY DEF Check
<1>2. CASE Judged(q, sets[Url(q)].keys)
  BY <1>1, <1>2, JudgedMoves, ThreadMoves
<1>3. CASE Put(q, [thread[q] EXCEPT !.pc = "lock"])
  <2> DEFINE r == [thread[q] EXCEPT !.pc = "lock"]
  <2>1. DOMAIN r = DOMAIN Free /\ r.pc = "lock"
    BY DEF KeysInv, LockInv, Free
  <2> HIDE DEF r
  <2>2. Put(q, r)
    BY <1>3 DEF r
  <2> QED BY <1>1, <2>1, <2>2, ThreadMoves
<1> QED BY <1>2, <1>3 DEF Check

\* Taking the lock: nobody held it, so nobody has an answer on its way.
LEMMA AcquireKeeps == ASSUME KeysInv, NEW q \in Threads, Acquire(q) PROVE KeysInv'
<1>1. UNCHANGED <<published, quiet, sets>> /\ lock = Null
  BY DEF Acquire
<1>2. CASE Judged(q, sets[Url(q)].keys) /\ UNCHANGED lock
  BY <1>1, <1>2, JudgedMoves, ThreadMoves
<1>3. CASE Put(q, [thread[q] EXCEPT !.pc = "fetch"]) /\ lock' = q
  <2>1. \A p \in Threads : thread[p].pc \notin {"fetch", "store"}
    BY <1>1, AuthnAssumption DEF KeysInv, LockInv
  <2>2. /\ DOMAIN thread'[q] = DOMAIN Free
        /\ thread'[q].pc = "fetch"
    BY <1>3 DEF Put, KeysInv, LockInv, Free
  <2>3. /\ DOMAIN thread' = Threads
        /\ \A p \in Threads \ {q} : thread'[p] = thread[p]
    BY <1>3 DEF Put, KeysInv, LockInv
  <2>4. LockInv'
    BY <1>3, <2>1, <2>2, <2>3 DEF KeysInv, LockInv
  <2>5. AnswerInv'
    BY <2>1, <2>2, <2>3 DEF AnswerInv
  <2>6. SetsInv'
    BY <1>1 DEF KeysInv, SetsInv, StoredInv
  <2> QED BY <2>4, <2>5, <2>6 DEF KeysInv
<1> QED BY <1>2, <1>3 DEF Acquire

\* The answer of the issuer keeps the invariant: it is what is published now.
LEMMA FetchKeeps == ASSUME KeysInv, NEW q \in Threads, Fetch(q) PROVE KeysInv'
<1>1. UNCHANGED <<published, quiet, sets, lock>>
  BY DEF Fetch
<1>2. /\ DOMAIN thread' = Threads
      /\ \A p \in Threads \ {q} : thread'[p] = thread[p]
  BY DEF Fetch, Put, KeysInv, LockInv
<1>3. /\ DOMAIN thread'[q] = DOMAIN Free
      /\ thread'[q].pc = "store" /\ thread'[q].lag = 0
      /\ thread'[q].keys = published[Url(q)] /\ thread'[q].row = thread[q].row
  BY DEF Fetch, Put, KeysInv, LockInv, Free
<1>4. LockInv'
  BY <1>1, <1>2, <1>3 DEF Fetch, KeysInv, LockInv
<1>5. AnswerInv'
  <2> SUFFICES ASSUME NEW p \in Threads, thread'[p].pc = "store"
               PROVE  /\ thread'[p].lag \in 0..MaxLag
                      /\ Url(p)' \in Urls => FetchedInv(thread[p], Url(p))'
    BY DEF AnswerInv
  <2>1. CASE p = q
    <3>1. Url(q)' = Url(q)
      BY <1>3 DEF Url
    <3>2. ASSUME Url(q) \in Urls PROVE FetchedInv(thread[q], Url(q))'
      <4>1. published[Url(q)] \in KeyRange /\ Behind(published[Url(q)], published[Url(q)])
        BY <3>2 DEF KeysInv, SetsInv, KeyRange, Behind
      <4>2. sets[Url(q)].keys # Null => Behind(sets[Url(q)].keys, published[Url(q)])
        BY <3>2 DEF KeysInv, SetsInv, StoredInv
      <4> QED BY <1>1, <1>3, <3>1, <4>1, <4>2 DEF FetchedInv
    <3> QED BY <1>3, <2>1, <3>1, <3>2, BoundNat
  <2>2. CASE p # q
    BY <1>1, <1>2, <2>2 DEF KeysInv, AnswerInv, FetchedInv, Url
  <2> QED BY <2>1, <2>2
<1>6. SetsInv'
  BY <1>1 DEF KeysInv, SetsInv, StoredInv
<1> QED BY <1>4, <1>5, <1>6 DEF KeysInv

\* A failed fetch gives the lock back and stores nothing.
LEMMA FetchFailsKeeps == ASSUME KeysInv, NEW q \in Threads, FetchFails(q) PROVE KeysInv'
<1>1. lock = q /\ lock' = Null /\ UNCHANGED <<published, quiet, sets>>
  BY DEF FetchFails, KeysInv, LockInv
<1>2. \E r : Put(q, r) /\ DOMAIN r = DOMAIN Free /\ r.pc \in {"admitted", "refused"}
  BY DoneFields DEF FetchFails, Done
<1> QED BY <1>1, <1>2, ThreadMoves

\* Storing: the answer is no older than what is cached, and no other answer is
\* on its way.
LEMMA StoreKeeps == ASSUME KeysInv, NEW q \in Threads, StoreKeys(q) PROVE KeysInv'
<1>1. lock = q /\ lock' = Null /\ UNCHANGED <<published, quiet>>
  BY DEF StoreKeys, KeysInv, LockInv
<1>2. PICK r : Put(q, r) /\ DOMAIN r = DOMAIN Free /\ r.pc \in {"admitted", "refused"}
  BY JudgedMoves DEF StoreKeys
<1>3. /\ DOMAIN thread' = Threads
      /\ \A p \in Threads : thread'[p] = IF p = q THEN r ELSE thread[p]
  BY <1>2 DEF Put, KeysInv, LockInv
<1>4. \A p \in Threads : thread'[p].pc \notin {"fetch", "store"}
  BY <1>1, <1>2, <1>3 DEF KeysInv, LockInv
<1>5. LockInv'
  BY <1>2, <1>3, <1>4 DEF KeysInv, LockInv
<1>6. AnswerInv'
  BY <1>4 DEF AnswerInv
<1>7. DOMAIN sets' = Urls
  BY DEF StoreKeys, KeysInv, SetsInv
<1>8. ASSUME NEW u \in Urls PROVE StoredInv(u)'
  <2>1. CASE u = Url(q)
    <3>1. sets'[u] = [keys |-> thread[q].keys, age |-> 0]
      BY <2>1 DEF StoreKeys, KeysInv, SetsInv
    <3>2. FetchedInv(thread[q], u) /\ thread[q].lag \in 0..MaxLag
      BY <2>1 DEF StoreKeys, KeysInv, AnswerInv
    <3>3. quiet[u] \in 0..Bound
      BY DEF KeysInv, SetsInv
    <3> QED BY <1>1, <3>1, <3>2, <3>3, BoundNat DEF StoredInv, FetchedInv
  <2>2. CASE u # Url(q)
    <3>1. sets'[u] = sets[u]
      BY <2>2 DEF StoreKeys, KeysInv, SetsInv
    <3> QED BY <1>1, <3>1 DEF KeysInv, SetsInv, StoredInv
  <2> QED BY <2>1, <2>2
<1>9. SetsInv'
  BY <1>1, <1>7, <1>8 DEF KeysInv, SetsInv
<1> QED BY <1>5, <1>6, <1>9 DEF KeysInv

\* The issuer of u changes its keys: it adds the next or retires the oldest.
LEMMA RepublishKeeps ==
  ASSUME KeysInv, NEW v \in Urls, AddKey(v) \/ RetireKey(v)
  PROVE  KeysInv'
<1>1. UNCHANGED <<sets, lock, thread>>
  BY DEF AddKey, RetireKey, Republish
<1>2. /\ published' \in [Urls -> KeyRange]
      /\ \A u \in Urls \ {v} : published'[u] = published[u]
      /\ Behind(published[v], published'[v])
  <2>1. published \in [Urls -> KeyRange] /\ published[v] \in KeyRange
    BY DEF KeysInv, SetsInv
  <2>2. PICK k \in KeyRange : Republish(v, k) /\ Behind(published[v], k)
    <3>1. CASE AddKey(v)
      <4> DEFINE k == [published[v] EXCEPT !.high = @ + 1]
      <4>1. k \in KeyRange /\ Behind(published[v], k)
        BY <2>1 DEF KeyRange, Behind
      <4> QED BY <3>1, <4>1 DEF AddKey
    <3>2. CASE RetireKey(v)
      <4> DEFINE k == [published[v] EXCEPT !.low = @ + 1]
      <4>1. k \in KeyRange /\ Behind(published[v], k)
        BY <2>1 DEF KeyRange, Behind
      <4> QED BY <3>2, <4>1 DEF RetireKey
    <3> QED BY <3>1, <3>2
  <2> QED BY <2>1, <2>2 DEF Republish
<1>3. quiet' = [quiet EXCEPT ![v] = 0]
  BY DEF AddKey, RetireKey, Republish
<1>4. /\ quiet' \in [Urls -> 0..Bound]
      /\ quiet'[v] = 0
      /\ \A u \in Urls \ {v} : quiet'[u] = quiet[u]
  BY <1>3, BoundNat DEF KeysInv, SetsInv
<1>5. LockInv'
  BY <1>1 DEF KeysInv, LockInv
<1>6. ASSUME NEW u \in Urls PROVE StoredInv(u)'
  <2>1. CASE u # v
    BY <1>1, <1>2, <1>4, <2>1 DEF KeysInv, SetsInv, StoredInv
  <2>2. CASE u = v
    <3>1. StoredInv(v) /\ published[v] \in KeyRange /\ published'[v] \in KeyRange
      BY <1>2 DEF KeysInv, SetsInv
    <3>2. sets[v].keys # Null => Behind(sets[v].keys, published'[v])
      BY <1>2, <3>1, BehindTransitive DEF StoredInv
    <3> QED BY <1>1, <1>4, <2>2, <3>1, <3>2, BoundNat DEF StoredInv
  <2> QED BY <2>1, <2>2
<1>7. AnswerInv'
  <2> SUFFICES ASSUME NEW q \in Threads, thread[q].pc = "store"
               PROVE  /\ thread[q].lag \in 0..MaxLag
                      /\ Url(q) \in Urls => FetchedInv(thread[q], Url(q))'
    BY <1>1 DEF AnswerInv, Url
  <2>1. /\ thread[q].lag \in 0..MaxLag
        /\ Url(q) \in Urls => FetchedInv(thread[q], Url(q))
    BY DEF KeysInv, AnswerInv
  <2>2. CASE Url(q) = v
    <3>1. published[v] \in KeyRange /\ published'[v] \in KeyRange
      BY <1>2 DEF KeysInv, SetsInv
    <3>2. Behind(thread[q].keys, published'[v])
      BY <1>2, <2>1, <2>2, <3>1, BehindTransitive DEF FetchedInv
    <3> QED BY <1>1, <1>4, <2>1, <2>2, <3>2, BoundNat DEF FetchedInv, Url
  <2>3. CASE Url(q) # v
    BY <1>1, <1>2, <1>4, <2>1, <2>3 DEF FetchedInv, Url
  <2> QED BY <2>1, <2>2, <2>3
<1> QED BY <1>1, <1>2, <1>4, <1>5, <1>6, <1>7 DEF KeysInv, SetsInv

\* Time passes: ages, lags and quiet times grow together.
LEMMA TickKeeps == ASSUME KeysInv, Tick PROVE KeysInv'
<1>1. UNCHANGED <<published, lock>>
  BY DEF Tick
<1>2. /\ quiet' \in [Urls -> 0..Bound]
      /\ \A u \in Urls : quiet'[u] = IF quiet[u] < Bound THEN quiet[u] + 1 ELSE quiet[u]
  BY BoundNat DEF Tick, KeysInv, SetsInv
<1>3. /\ DOMAIN thread' = Threads
      /\ \A q \in Threads :
           /\ DOMAIN thread'[q] = DOMAIN Free
           /\ thread'[q].pc = thread[q].pc
           /\ thread'[q].row = thread[q].row
           /\ thread'[q].keys = thread[q].keys
           /\ thread[q].pc = "store" => thread'[q].lag = thread[q].lag + 1
  BY DEF Tick, KeysInv, LockInv, Free
<1>4. /\ DOMAIN sets' = Urls
      /\ \A u \in Urls : sets'[u] = IF sets[u].keys = Null \/ sets[u].age > TTL
                                      THEN sets[u] ELSE [sets[u] EXCEPT !.age = @ + 1]
  BY DEF Tick
<1>5. ASSUME NEW u \in Urls PROVE StoredInv(u)' /\ sets'[u].keys = sets[u].keys
  <2>1. StoredInv(u) /\ quiet[u] \in 0..Bound
    BY DEF KeysInv, SetsInv
  <2>2. CASE sets[u].keys = Null \/ sets[u].age > TTL
    <3>1. sets'[u] = sets[u]
      BY <1>4, <2>2
    <3> QED BY <1>1, <1>2, <2>1, <2>2, <3>1, BoundNat DEF StoredInv
  <2>3. CASE ~(sets[u].keys = Null \/ sets[u].age > TTL)
    <3>1. sets'[u] = [keys |-> sets[u].keys, age |-> sets[u].age + 1]
      BY <1>4, <2>1, <2>3 DEF StoredInv
    <3> QED BY <1>1, <1>2, <2>1, <2>3, <3>1, BoundNat DEF StoredInv
  <2> QED BY <2>2, <2>3
<1>6. LockInv'
  BY <1>1, <1>3 DEF KeysInv, LockInv
<1>7. AnswerInv'
  <2> SUFFICES ASSUME NEW q \in Threads, thread[q].pc = "store"
               PROVE  /\ thread'[q].lag \in 0..MaxLag
                      /\ Url(q) \in Urls => FetchedInv(thread[q], Url(q))'
    BY <1>3 DEF AnswerInv, Url
  <2>1. /\ thread[q].lag \in 0..MaxLag
        /\ Url(q) \in Urls => FetchedInv(thread[q], Url(q))
    BY DEF KeysInv, AnswerInv
  <2>2. thread[q].lag < MaxLag /\ Url(q)' = Url(q)
    BY <1>3 DEF Tick, Url
  <2>3. ASSUME Url(q) \in Urls PROVE FetchedInv(thread[q], Url(q))'
    <3>1. quiet[Url(q)] \in 0..Bound
      BY <2>3 DEF KeysInv, SetsInv
    <3> QED BY <1>1, <1>2, <1>3, <1>5, <2>1, <2>2, <2>3, <3>1, BoundNat DEF FetchedInv
  <2> QED BY <1>3, <2>1, <2>2, <2>3, BoundNat
<1> QED BY <1>1, <1>2, <1>4, <1>5, <1>6, <1>7 DEF KeysInv, SetsInv

\* Steps of the admin API and of starting services touch neither.
LEMMA FrameKeeps == ASSUME KeysInv, UNCHANGED <<published, quiet, sets, lock, thread>> PROVE KeysInv'
  BY DEF KeysInv, LockInv, AnswerInv, SetsInv, StoredInv, FetchedInv, Url

\* Every step keeps the invariant on cached keys.
LEMMA NextKeepsKeys == KeysInv /\ [AuthnNext]_authnVars => KeysInv'
<1> SUFFICES ASSUME KeysInv, [AuthnNext]_authnVars PROVE KeysInv'
  OBVIOUS
<1>1. ASSUME NEW q \in Threads, NEW name \in Names, NEW token \in Tokens \cup {Null},
             Arrive(q, name, token) \/ LookupFails(q, name, token)
      PROVE  KeysInv'
  <2>1. PICK hosts : WithTenant(q, hosts, token)
    BY <1>1 DEF Arrive, LookupFails
  <2> QED BY <2>1, ArrivalMoves, ThreadMoves
<1>2. ASSUME NEW q \in Threads, Step(q) PROVE KeysInv'
  BY <1>2, CheckKeeps, AcquireKeeps, FetchKeeps, StoreKeeps DEF Step
<1>3. ASSUME NEW q \in Threads, FetchFails(q) PROVE KeysInv'
  BY <1>3, FetchFailsKeeps
<1>4. CASE StartAdmin \/ StopAdmin
  BY <1>4, FrameKeeps DEF StartAdmin, StopAdmin
<1>5. ASSUME NEW token \in Tokens, NEW h \in Hosts, NEW b \in OIDCBodies, putTenantOIDC(token, h, b)
      PROVE  KeysInv'
  BY <1>5, FrameKeeps DEF putTenantOIDC, Edit
<1>6. ASSUME NEW h \in Hosts, SeedTenant(h) PROVE KeysInv'
  BY <1>6, FrameKeeps DEF SeedTenant, Edit
<1>7. ASSUME NEW u \in Urls, AddKey(u) \/ RetireKey(u) PROVE KeysInv'
  BY <1>7, RepublishKeeps
<1>8. CASE Tick
  BY <1>8, TickKeeps
<1>9. CASE UNCHANGED authnVars
  BY <1>9, FrameKeeps DEF authnVars
<1> QED BY <1>1, <1>2, <1>3, <1>4, <1>5, <1>6, <1>7, <1>8, <1>9 DEF AuthnNext

\* The invariant on cached keys holds throughout.
LEMMA KeysInvariant == AuthnSpec => []KeysInv
  BY InitKeys, NextKeepsKeys, PTL DEF AuthnSpec

\* However requests and fetches overlap, a key set served from the cache is the
\* issuer's once that has been quiet for the lifetime of the cache and the time
\* of a fetch (auth.go, jwksCache.get).
THEOREM CachedKeysCurrent == AuthnSpec => []KeysCurrent
<1>1. KeysInv => KeysCurrent
  <2> SUFFICES ASSUME KeysInv, NEW u \in Urls, Cached(u), quiet[u] >= Bound
               PROVE  sets[u].keys = published[u]
    BY DEF KeysCurrent
  <2>1. StoredInv(u) /\ quiet[u] \in 0..Bound
    BY DEF KeysInv, SetsInv
  <2> QED BY <2>1, BoundNat DEF StoredInv, Cached
<1> QED BY <1>1, KeysInvariant, PTL

\* Only a request that stores its answer changes the keys of a cached set.
LEMMA SetsChange ==
  ASSUME KeysInv, AuthnNext, NEW u \in Urls, sets'[u].keys # sets[u].keys
  PROVE  \E q \in Threads : StoreKeys(q) /\ Url(q) = u
<1>1. sets' # sets
  OBVIOUS
<1>2. ~Tick
  BY DEF Tick, KeysInv, SetsInv, StoredInv
<1>3. \A q \in Threads : \A hosts, token : ~WithTenant(q, hosts, token)
  BY <1>1 DEF WithTenant
<1>4. PICK q \in Threads : StoreKeys(q)
  BY <1>1, <1>2, <1>3 DEF AuthnNext, Step, Arrive, LookupFails, Check, Acquire, Fetch, FetchFails,
       StartAdmin, StopAdmin, putTenantOIDC, SeedTenant, Edit, AddKey, RetireKey, Republish
<1>5. Url(q) = u
  BY <1>4 DEF StoreKeys, KeysInv, SetsInv
<1> QED BY <1>4, <1>5

\* The cache never goes back to older keys: the write lock is held from before
\* the fetch to the store (auth.go, jwksCache.get).
THEOREM CachedKeysAdvance == AuthnSpec => CacheAdvances
<1> DEFINE Advance ==
      \A u \in Urls : sets[u].keys # Null =>
        /\ sets'[u].keys.low >= sets[u].keys.low
        /\ sets'[u].keys.high >= sets[u].keys.high
<1>1. KeysInv /\ [AuthnNext]_authnVars => [Advance]_authnVars
  <2> SUFFICES ASSUME KeysInv, AuthnNext, NEW u \in Urls, sets[u].keys # Null
               PROVE  /\ sets'[u].keys.low >= sets[u].keys.low
                      /\ sets'[u].keys.high >= sets[u].keys.high
    OBVIOUS
  <2>1. sets[u].keys \in KeyRange
    BY DEF KeysInv, SetsInv, StoredInv
  <2>2. CASE sets'[u].keys = sets[u].keys
    BY <2>1, <2>2 DEF KeyRange
  <2>3. CASE sets'[u].keys # sets[u].keys
    <3>1. PICK q \in Threads : StoreKeys(q) /\ Url(q) = u
      BY <2>3, SetsChange
    <3>2. FetchedInv(thread[q], u)
      BY <3>1 DEF StoreKeys, KeysInv, AnswerInv
    <3>3. sets'[u].keys = thread[q].keys
      BY <3>1 DEF StoreKeys, KeysInv, SetsInv
    <3> QED BY <2>1, <3>2, <3>3 DEF FetchedInv, Behind, KeyRange
  <2> QED BY <2>2, <2>3
<1> QED BY <1>1, KeysInvariant, PTL DEF AuthnSpec, CacheAdvances

-----------------------------------------------------------------------------
(* Admission.  A tenant's audiences are a list and its URL is a JWKS URL,   *)
(* where it has one; so are those of the row that a request carries to its  *)
(* verdict.                                                                 *)

Waiting == {"check", "lock", "fetch", "store"}

\* A row with which a request waits for its verdict.
RowOK(row) == row.audiences \in Seq(STRING) /\ JwksUrl(row) \in Urls

\* Rows, stored or carried by a request, have a list of audiences and a URL.
RowsInv ==
  /\ DOMAIN tenant = Hosts
  /\ \A h \in Hosts : /\ DOMAIN tenant[h] = {"issuer", "jwks", "audiences"}
                      /\ tenant[h].audiences \in Seq(STRING)
                      /\ tenant[h].jwks \in Urls \cup {Null}
  /\ DOMAIN thread = Threads
  /\ \A q \in Threads : DOMAIN thread[q] = DOMAIN Free
  /\ \A q \in Threads : thread[q].pc \in Waiting => RowOK(thread[q].row)

\* At the start every tenant has a list of audiences and the seed's URL.
LEMMA InitRows == AuthnInit => RowsInv
<1> SUFFICES ASSUME AuthnInit PROVE RowsInv
  OBVIOUS
<1>1. \A h \in Hosts : /\ DOMAIN tenant[h] = {"issuer", "jwks", "audiences"}
                       /\ tenant[h].audiences = <<>>
                       /\ tenant[h].jwks \in Urls \cup {Null}
  BY AuthnAssumption DEF AuthnInit
<1>2. /\ DOMAIN thread = Threads
      /\ \A q \in Threads : thread[q] = Free
  BY DEF AuthnInit
<1>3. Free.pc \notin Waiting
  BY DEF Free, Waiting
<1>4. DOMAIN tenant = Hosts
  BY DEF AuthnInit
<1>5. <<>> \in Seq(STRING)
  OBVIOUS
<1> QED BY <1>1, <1>2, <1>3, <1>4, <1>5 DEF RowsInv

\* The first of the two places a name may come from is one of them.
LEMMA FirstKnown == \A S \in SUBSET {1, 2} : S # {} => Min(S) \in S
<1> SUFFICES ASSUME NEW S \in SUBSET {1, 2}, S # {} PROVE Min(S) \in S
  OBVIOUS
<1>1. \E x \in S : \A y \in S : x <= y
  <2>1. CASE 1 \in S
    <3>1. \A y \in S : 1 <= y
      OBVIOUS
    <3> QED BY <2>1, <3>1
  <2>2. CASE 1 \notin S
    <3>1. S = {2}
      BY <2>2
    <3> QED BY <3>1
  <2> QED BY <2>1, <2>2
<1> QED BY <1>1, Zenon DEF Min

\* A request moves and carries such a row, or is answered.
LEMMA RowMoves ==
  ASSUME RowsInv, NEW q \in Threads, NEW r, Put(q, r), DOMAIN r = DOMAIN Free,
         r.pc \in Waiting => RowOK(r.row), UNCHANGED tenant
  PROVE  RowsInv'
<1>1. /\ DOMAIN thread' = Threads
      /\ \A p \in Threads : thread'[p] = IF p = q THEN r ELSE thread[p]
  BY DEF Put, RowsInv
<1> QED BY <1>1 DEF RowsInv

\* An answer keeps the rows that other requests have read.
LEMMA DoneKeepsRows ==
  ASSUME RowsInv, NEW q \in Threads, NEW v \in {"admitted", "refused"}, Done(q, v), UNCHANGED tenant
  PROVE  RowsInv'
<1> DEFINE r == [Free EXCEPT !.pc = v]
<1>1. DOMAIN r = DOMAIN Free /\ r.pc = v /\ Put(q, r)
  BY DoneFields DEF Done
<1> HIDE DEF r
<1>2. r.pc \notin Waiting
  BY <1>1 DEF Waiting
<1> QED BY <1>1, <1>2, RowMoves

\* Judging a token keeps the rows that requests have read.
LEMMA JudgedKeepsRows ==
  ASSUME RowsInv, NEW q \in Threads, NEW keys, Judged(q, keys), UNCHANGED tenant
  PROVE  RowsInv'
<1> DEFINE v == Verdict(thread[q].host, thread[q].row, thread[q].token, keys)
<1>1. v \in {"admitted", "refused"} /\ Done(q, v)
  BY VerdictIs DEF Judged
<1> HIDE DEF v
<1> QED BY <1>1, DoneKeepsRows

\* At most two places are tried for a tenant.
LEMMA PlacesTried ==
  ASSUME NEW name
  PROVE  /\ DOMAIN Fallback(name) \in SUBSET {1, 2}
         /\ DOMAIN (<<name>> \o Fallback(name)) \in SUBSET {1, 2}
<1>1. Fallback(name) = <<Localhost>> \/ Fallback(name) = <<>>
  BY DEF Fallback
<1>2. /\ DOMAIN (<<name>> \o <<>>) \in SUBSET {1, 2}
      /\ DOMAIN (<<name>> \o <<Localhost>>) \in SUBSET {1, 2}
  <2> DEFINE S == {name, Localhost}
  <2>1. <<name>> \in Seq(S) /\ <<Localhost>> \in Seq(S) /\ <<>> \in Seq(S)
    OBVIOUS
  <2>2. Len(<<name>>) = 1 /\ Len(<<Localhost>>) = 1 /\ Len(<<>>) = 0
    OBVIOUS
  <2>3. /\ <<name>> \o <<>> \in Seq(S) /\ Len(<<name>> \o <<>>) = 1
        /\ <<name>> \o <<Localhost>> \in Seq(S) /\ Len(<<name>> \o <<Localhost>>) = 2
    BY <2>1, <2>2, ConcatProperties
  <2> QED BY <2>3
<1>3. DOMAIN <<>> \in SUBSET {1, 2} /\ DOMAIN <<Localhost>> \in SUBSET {1, 2}
  OBVIOUS
<1>4. DOMAIN Fallback(name) \in SUBSET {1, 2}
  BY <1>1, <1>3, Zenon
<1>5. DOMAIN (<<name>> \o Fallback(name)) \in SUBSET {1, 2}
  BY <1>1, <1>2, Zenon
<1> QED BY <1>4, <1>5

\* A request that arrives has read the row of its tenant.
LEMMA ArrivalKeepsRows ==
  ASSUME RowsInv, NEW q \in Threads, NEW hosts, DOMAIN hosts \in SUBSET {1, 2}, NEW token,
         WithTenant(q, hosts, token)
  PROVE  RowsInv'
<1> DEFINE known == {i \in DOMAIN hosts : hosts[i] \in Hosts}
           h     == hosts[Min(known)]
           r     == [Free EXCEPT !.pc = "check", !.host = h, !.token = token, !.row = tenant[h]]
<1>1. UNCHANGED tenant
  BY DEF WithTenant
<1>2. CASE Done(q, "admitted") \/ Done(q, "refused")
  BY <1>1, <1>2, DoneKeepsRows
<1>3. CASE known # {} /\ Put(q, r) /\ JwksUrl(tenant[h]) # Null
  <2>1. h \in Hosts
    BY <1>3, FirstKnown
  <2>2. DOMAIN r = DOMAIN Free /\ r.pc = "check" /\ r.row = tenant[h]
    BY DEF Free
  <2>3. RowOK(r.row)
    BY <1>3, <2>1, <2>2, AuthnAssumption DEF RowsInv, RowOK, JwksUrl
  <2> HIDE DEF r, h, known
  <2> QED BY <1>1, <1>3, <2>2, <2>3, RowMoves
<1>4. Done(q, "admitted") \/ Done(q, "refused") \/ (known # {} /\ Put(q, r) /\ JwksUrl(tenant[h]) # Null)
  BY DEF WithTenant, JWTAuth
<1> QED BY <1>2, <1>3, <1>4

\* The steps of a request that has its row keep it.
LEMMA StepKeepsRows ==
  ASSUME RowsInv, NEW q \in Threads, Step(q) \/ FetchFails(q)
  PROVE  RowsInv'
<1>1. UNCHANGED tenant
  BY DEF Step, Check, Acquire, Fetch, StoreKeys, FetchFails
<1>2. CASE Done(q, "refused")
  BY <1>1, <1>2, DoneKeepsRows
<1>3. CASE \E keys : Judged(q, keys)
  BY <1>1, <1>3, JudgedKeepsRows
<1>4. ASSUME thread[q].pc \in Waiting,
             NEW pc \in {"lock", "fetch"}, Put(q, [thread[q] EXCEPT !.pc = pc])
      PROVE  RowsInv'
  <2> DEFINE r == [thread[q] EXCEPT !.pc = pc]
  <2>1. DOMAIN r = DOMAIN Free /\ r.row = thread[q].row
    BY <1>4 DEF RowsInv, Free
  <2>2. RowOK(r.row)
    BY <1>4, <2>1 DEF RowsInv
  <2> HIDE DEF r
  <2>3. Put(q, r)
    BY <1>4 DEF r
  <2> QED BY <1>1, <2>1, <2>2, <2>3, RowMoves
<1>5. CASE Fetch(q)
  <2> DEFINE r == [thread[q] EXCEPT !.pc = "store", !.keys = published[Url(q)], !.lag = 0]
  <2>1. DOMAIN r = DOMAIN Free /\ r.row = thread[q].row
    BY DEF RowsInv, Free
  <2>2. RowOK(r.row)
    BY <1>5, <2>1 DEF Fetch, RowsInv, Waiting
  <2> HIDE DEF r
  <2>3. Put(q, r)
    BY <1>5 DEF r, Fetch
  <2> QED BY <1>1, <2>1, <2>2, <2>3, RowMoves
<1>6. CASE Check(q)
  BY <1>3, <1>4, <1>6 DEF Check, Waiting
<1>7. CASE Acquire(q)
  BY <1>3, <1>4, <1>7 DEF Acquire, Waiting
<1>8. CASE StoreKeys(q)
  BY <1>3, <1>8 DEF StoreKeys
<1>9. CASE FetchFails(q)
  BY <1>2, <1>9 DEF FetchFails
<1> QED BY <1>5, <1>6, <1>7, <1>8, <1>9 DEF Step

\* Writing a tenant keeps its audiences a list and its URL one of the JWKS URLs.
LEMMA TenantKeepsRows ==
  ASSUME RowsInv, NEW h \in Hosts,
         SeedTenant(h) \/ \E token \in Tokens, b \in OIDCBodies : putTenantOIDC(token, h, b)
  PROVE  RowsInv'
<1>1. PICK row : /\ Edit(h, row)
                 /\ DOMAIN row = {"issuer", "jwks", "audiences"}
                 /\ row.audiences \in Seq(STRING) /\ row.jwks \in Urls \cup {Null}
  <2>1. CASE SeedTenant(h)
    <3> DEFINE row == [tenant[h] EXCEPT !.issuer = Seed[h].issuer, !.jwks = Seed[h].jwks]
    <3>1. DOMAIN row = {"issuer", "jwks", "audiences"} /\ row.audiences = tenant[h].audiences
          /\ row.jwks = Seed[h].jwks
      BY DEF RowsInv
    <3> HIDE DEF row
    <3>2. Edit(h, row)
      BY <2>1 DEF SeedTenant, row
    <3> QED BY <3>1, <3>2, AuthnAssumption DEF RowsInv
  <2>2. ASSUME NEW token \in Tokens, NEW b \in OIDCBodies, putTenantOIDC(token, h, b)
        PROVE  \E row : Edit(h, row) /\ DOMAIN row = {"issuer", "jwks", "audiences"}
                                     /\ row.audiences \in Seq(STRING) /\ row.jwks \in Urls \cup {Null}
    <3> DEFINE row == [tenant[h] EXCEPT !.issuer = b.issuer, !.audiences = b.audiences]
    <3>1. DOMAIN row = {"issuer", "jwks", "audiences"} /\ row.audiences = b.audiences
          /\ row.jwks = tenant[h].jwks
      BY DEF RowsInv
    <3> HIDE DEF row
    <3>2. Edit(h, row)
      BY <2>2 DEF putTenantOIDC, row
    <3> QED BY <3>1, <3>2, AuthnAssumption DEF RowsInv
  <2> QED BY <2>1, <2>2
<1>2. /\ thread' = thread
      /\ DOMAIN tenant' = Hosts
      /\ \A g \in Hosts : tenant'[g] = IF g = h THEN row ELSE tenant[g]
  BY <1>1 DEF Edit, RowsInv
<1> QED BY <1>1, <1>2 DEF RowsInv

\* Every step keeps the rows.
LEMMA NextKeepsRows == RowsInv /\ [AuthnNext]_authnVars => RowsInv'
<1> SUFFICES ASSUME RowsInv, [AuthnNext]_authnVars PROVE RowsInv'
  OBVIOUS
<1>1. ASSUME NEW q \in Threads, NEW name \in Names, NEW token \in Tokens \cup {Null},
             Arrive(q, name, token) \/ LookupFails(q, name, token)
      PROVE  RowsInv'
  BY <1>1, PlacesTried, ArrivalKeepsRows DEF Arrive, LookupFails
<1>2. ASSUME NEW q \in Threads, Step(q) \/ FetchFails(q) PROVE RowsInv'
  BY <1>2, StepKeepsRows
<1>3. CASE StartAdmin \/ StopAdmin \/ (\E u \in Urls : AddKey(u) \/ RetireKey(u)) \/ UNCHANGED authnVars
  BY <1>3 DEF StartAdmin, StopAdmin, AddKey, RetireKey, Republish, authnVars, RowsInv
<1>4. ASSUME NEW h \in Hosts,
             SeedTenant(h) \/ \E token \in Tokens, b \in OIDCBodies : putTenantOIDC(token, h, b)
      PROVE  RowsInv'
  BY <1>4, TenantKeepsRows
<1>5. CASE Tick
  <2>1. /\ tenant' = tenant
        /\ DOMAIN thread' = Threads
        /\ \A q \in Threads : /\ DOMAIN thread'[q] = DOMAIN Free
                              /\ thread'[q].pc = thread[q].pc /\ thread'[q].row = thread[q].row
    BY <1>5 DEF Tick, RowsInv, Free
  <2> QED BY <2>1 DEF RowsInv
<1> QED BY <1>1, <1>2, <1>3, <1>4, <1>5 DEF AuthnNext

\* Rows are as they should be throughout.
LEMMA RowsInvariant == AuthnSpec => []RowsInv
  BY InitRows, NextKeepsRows, PTL DEF AuthnSpec

\* The two places where audiences are checked agree with the list.
LEMMA AudienceFitsList ==
  ASSUME NEW row, row.audiences \in Seq(STRING), NEW token, AudienceFits(row, token),
         {row.audiences[i] : i \in DOMAIN row.audiences} # {}
  PROVE  {row.audiences[i] : i \in DOMAIN row.audiences} \cap token.aud # {}
<1> DEFINE s == row.audiences
<1>1. DOMAIN s = 1..Len(s) /\ Len(s) \in Nat /\ s # <<>>
  OBVIOUS
<1>2. Audiences(row) = s
  BY <1>1 DEF Audiences
<1>3. Len(s) # 0
  BY <1>1
<1>4. CASE Len(s) = 1
  <2>1. s[1] \in token.aud /\ 1 \in DOMAIN s
    BY <1>1, <1>2, <1>4 DEF AudienceFits
  <2> QED BY <2>1
<1>5. CASE Len(s) # 1
  <2>1. \E i \in DOMAIN s : s[i] \in token.aud
    BY <1>2, <1>3, <1>5 DEF AudienceFits
  <2> QED BY <2>1
<1> QED BY <1>4, <1>5

\* A waiting request is admitted by a verdict and by nothing else.
LEMMA AdmittedByVerdict ==
  ASSUME RowsInv, AuthnNext, NEW q \in Threads,
         thread[q].pc \in {"check", "lock", "store"}, thread'[q].pc = "admitted"
  PROVE  \E keys : Verdict(thread[q].host, thread[q].row, thread[q].token, keys) = "admitted"
<1>1. thread'[q] # thread[q]
  OBVIOUS
<1>2. ASSUME NEW p \in Threads, NEW r, Put(p, r)
      PROVE  p = q /\ thread'[q] = r
  BY <1>1, <1>2 DEF Put, RowsInv
<1>3. ASSUME NEW p \in Threads, NEW keys, Judged(p, keys)
      PROVE  Verdict(thread[q].host, thread[q].row, thread[q].token, keys) = "admitted"
  <2> DEFINE v == Verdict(thread[p].host, thread[p].row, thread[p].token, keys)
             r == [Free EXCEPT !.pc = v]
  <2>1. v \in {"admitted", "refused"}
    BY VerdictIs
  <2>2. Put(p, r)
    BY <1>3 DEF Judged, Done
  <2>3. r.pc = v
    BY DEF Free
  <2> HIDE DEF r, v
  <2>4. p = q /\ thread'[q].pc = v
    BY <1>2, <2>2, <2>3
  <2> QED BY <2>4 DEF v
<1>4. ASSUME NEW p \in Threads, NEW token, NEW hosts PROVE ~WithTenant(p, hosts, token)
  <2> SUFFICES ASSUME WithTenant(p, hosts, token) PROVE FALSE
    OBVIOUS
  <2>1. p = q /\ thread[p].pc \in {"free", "admitted", "refused"}
    BY <1>2, ArrivalMoves
  <2> QED BY <2>1
<1>5. ~Tick
  BY DEF Tick, RowsInv, Free
<1>6. UNCHANGED thread => FALSE
  BY <1>1
<1>7. PICK p \in Threads : Step(p) \/ FetchFails(p)
  BY <1>4, <1>5, <1>6 DEF AuthnNext, Arrive, LookupFails, StartAdmin, StopAdmin, putTenantOIDC,
       SeedTenant, Edit, AddKey, RetireKey, Republish
<1>8. ASSUME NEW r, Put(p, r), r.pc # "admitted" PROVE FALSE
  BY <1>2, <1>8
<1>9. ~FetchFails(p)
  BY <1>8, DoneFields DEF FetchFails, Done
<1>10. ~Fetch(p)
  BY <1>2 DEF Fetch, RowsInv, Free
<1>11. CASE Check(p)
  BY <1>2, <1>3, <1>11 DEF Check, RowsInv, Free
<1>12. CASE Acquire(p)
  BY <1>2, <1>3, <1>12 DEF Acquire, RowsInv, Free
<1>13. CASE StoreKeys(p)
  BY <1>3, <1>13 DEF StoreKeys
<1> QED BY <1>7, <1>9, <1>10, <1>11, <1>12, <1>13 DEF Step

\* Whoever is admitted by a token had one for the tenant of the request, from
\* the issuer of its row and for one of its audiences, whatever is written to
\* the row meanwhile (auth.go, JWTAuth).
THEOREM AdmissionRight == AuthnSpec => AdmittedRightly
<1> DEFINE Admission ==
      \A q \in Threads :
        LET r == thread[q]
            accepted == {r.row.audiences[i] : i \in DOMAIN r.row.audiences}
        IN
        r.pc \in {"check", "lock", "store"} /\ thread'[q].pc = "admitted" =>
          /\ r.token.tid \in {Null, r.host}
          /\ r.token.iss = Issuer(r.row)
          /\ accepted # {} => accepted \cap r.token.aud # {}
<1>1. RowsInv /\ [AuthnNext]_authnVars => [Admission]_authnVars
  <2> SUFFICES ASSUME RowsInv, AuthnNext, NEW q \in Threads,
                      thread[q].pc \in {"check", "lock", "store"}, thread'[q].pc = "admitted"
               PROVE  LET r == thread[q]
                          accepted == {r.row.audiences[i] : i \in DOMAIN r.row.audiences}
                      IN /\ r.token.tid \in {Null, r.host}
                         /\ r.token.iss = Issuer(r.row)
                         /\ accepted # {} => accepted \cap r.token.aud # {}
    OBVIOUS
  <2> DEFINE r == thread[q]
  <2>1. PICK keys : Verdict(r.host, r.row, r.token, keys) = "admitted"
    BY AdmittedByVerdict
  <2>2. r.token.iss = Issuer(r.row) /\ AudienceFits(r.row, r.token) /\ TenantFits(r.host, r.token)
    BY <2>1 DEF Verdict
  <2>3. r.row.audiences \in Seq(STRING)
    BY DEF RowsInv, RowOK, Waiting
  <2> QED BY <2>2, <2>3, AudienceFitsList DEF TenantFits
<1> QED BY <1>1, RowsInvariant, PTL DEF AuthnSpec, AdmittedRightly

-----------------------------------------------------------------------------
(* Fetching.  Only the write lock lets a waiting request fetch.             *)

\* The step that moves a request to an answer or to another place is its own,
\* and a waiting request goes on to fetch under the write lock only.
LEMMA FetchByAcquire ==
  ASSUME RowsInv, AuthnNext, NEW q \in Threads,
         thread[q].pc = "lock", thread'[q].pc = "fetch"
  PROVE  Acquire(q)
<1>1. thread'[q] # thread[q]
  OBVIOUS
<1>2. ASSUME NEW p \in Threads, NEW r, Put(p, r)
      PROVE  p = q /\ r.pc = "fetch"
  BY <1>1, <1>2 DEF Put, RowsInv
<1>3. ASSUME NEW p \in Threads, NEW v \in {"admitted", "refused"}, Done(p, v) PROVE FALSE
  BY <1>2, <1>3, DoneFields DEF Done
<1>4. ASSUME NEW p \in Threads, NEW keys, Judged(p, keys) PROVE FALSE
  BY <1>3, <1>4, VerdictIs DEF Judged
<1>5. ASSUME NEW p \in Threads, NEW token, NEW hosts PROVE ~WithTenant(p, hosts, token)
  <2> SUFFICES ASSUME WithTenant(p, hosts, token) PROVE FALSE
    OBVIOUS
  <2>1. p = q /\ thread[p].pc \in {"free", "admitted", "refused"}
    BY <1>2, ArrivalMoves
  <2> QED BY <2>1
<1>6. ~Tick
  BY DEF Tick, RowsInv, Free
<1>7. UNCHANGED thread => FALSE
  BY <1>1
<1>8. PICK p \in Threads : Step(p) \/ FetchFails(p)
  BY <1>5, <1>6, <1>7 DEF AuthnNext, Arrive, LookupFails, StartAdmin, StopAdmin, putTenantOIDC,
       SeedTenant, Edit, AddKey, RetireKey, Republish
<1>9. ~FetchFails(p)
  BY <1>3 DEF FetchFails
<1>10. ~Fetch(p)
  BY <1>2 DEF Fetch, RowsInv, Free
<1>11. ~Check(p)
  BY <1>2, <1>4 DEF Check, RowsInv, Free
<1>12. ~StoreKeys(p)
  BY <1>4 DEF StoreKeys
<1>13. Acquire(p)
  BY <1>8, <1>9, <1>10, <1>11, <1>12 DEF Step
<1>14. p = q
  BY <1>2, <1>4, <1>13 DEF Acquire
<1> QED BY <1>13, <1>14

\* Keys are fetched once: a request that waited for the write lock while
\* another one fetched them does not fetch them again (jwksCache.get, the
\* second check).
THEOREM WaitersDoNotRefetch == AuthnSpec => FetchedOnce
<1> DEFINE Once ==
      \A q \in Threads : thread[q].pc = "lock" /\ thread'[q].pc = "fetch" => ~Cached(Url(q))
<1>1. RowsInv /\ [AuthnNext]_authnVars => [Once]_authnVars
  <2> SUFFICES ASSUME RowsInv, AuthnNext, NEW q \in Threads,
                      thread[q].pc = "lock", thread'[q].pc = "fetch", Cached(Url(q))
               PROVE  FALSE
    OBVIOUS
  <2>1. Acquire(q)
    BY FetchByAcquire
  <2> DEFINE v == Verdict(thread[q].host, thread[q].row, thread[q].token, sets[Url(q)].keys)
  <2>2. v \in {"admitted", "refused"} /\ Done(q, v)
    BY <2>1, VerdictIs DEF Acquire, Judged
  <2> HIDE DEF v
  <2>3. thread'[q].pc = v
    BY <2>2, DoneFields DEF Done, Put, RowsInv
  <2> QED BY <2>2, <2>3
<1> QED BY <1>1, RowsInvariant, PTL DEF AuthnSpec, FetchedOnce

-----------------------------------------------------------------------------
(* The token check implements KeyGate.  What a request looks like from      *)
(* outside is Asked; the looks at the cache, the lock and the fetch leave   *)
(* it as it is, and a verdict is based on keys that KeysInv relates to the  *)
(* published ones.                                                          *)

Asked(r) ==
  IF r.pc \in Waiting
    THEN [pc |-> "waiting", host |-> r.host, token |-> r.token, row |-> r.row]
    ELSE [pc |-> r.pc]

AskedAll == [q \in Threads |-> Asked(thread[q])]

\* One request moves.
LEMMA AskedMoves ==
  ASSUME RowsInv, NEW q \in Threads, NEW r, Put(q, r)
  PROVE  AskedAll' = [AskedAll EXCEPT ![q] = Asked(r)]
<1>1. \A p \in Threads : thread'[p] = IF p = q THEN r ELSE thread[p]
  BY DEF RowsInv, Put
<1> HIDE DEF Put
<1>2. \A p \in Threads : Asked(thread'[p]) = IF p = q THEN Asked(r) ELSE Asked(thread[p])
  BY <1>1
<1>3. AskedAll' = [p \in Threads |-> Asked(thread'[p])]
  BY DEF AskedAll, Asked
<1> QED BY <1>2, <1>3 DEF AskedAll

\* An answer is an answer.
LEMMA DoneAnswers ==
  ASSUME RowsInv, NEW q \in Threads, NEW v \in {"admitted", "refused"}, Done(q, v),
         UNCHANGED <<published, quiet, tenant>>
  PROVE  Gate!Answer(q, v)
<1> DEFINE r == [Free EXCEPT !.pc = v]
<1>1. r.pc = v /\ Put(q, r)
  BY DoneFields DEF Done
<1> HIDE DEF r
<1>2. Asked(r) = [pc |-> v]
  BY <1>1 DEF Asked, Waiting
<1>3. AskedAll' = [AskedAll EXCEPT ![q] = [pc |-> v]]
  BY <1>1, <1>2, AskedMoves
<1> QED BY <1>3 DEF Gate!Answer, AskedAll, Asked, Waiting

\* A request that goes on waiting looks the same.
LEMMA WaitingStays ==
  ASSUME RowsInv, NEW q \in Threads, NEW r, Put(q, r), thread[q].pc \in Waiting, r.pc \in Waiting,
         r.host = thread[q].host, r.token = thread[q].token, r.row = thread[q].row
  PROVE  AskedAll' = AskedAll
<1>1. Asked(r) = Asked(thread[q])
  BY DEF Asked
<1>2. AskedAll' = [AskedAll EXCEPT ![q] = Asked(thread[q])]
  BY <1>1, AskedMoves
<1> QED BY <1>2 DEF AskedAll

\* What is stored, and what a fetch has brought, may be judged by.
LEMMA KeysKnown ==
  ASSUME KeysInv, NEW u \in Urls, NEW keys \in KeyRange, Behind(keys, published[u]),
         quiet[u] >= Bound => keys = published[u]
  PROVE  keys \in Gate!Known(u)
<1>1. published[u] \in KeyRange
  BY DEF KeysInv, SetsInv
<1>2. keys \in [low : 0..published[u].low, high : 0..published[u].high]
  BY <1>1 DEF KeyRange, Behind
<1> QED BY <1>2 DEF Gate!Known

\* A verdict on such keys is one of KeyGate's.
LEMMA JudgedJudges ==
  ASSUME RowsInv, NEW q \in Threads, thread[q].pc \in Waiting, NEW keys \in Gate!Known(Url(q)),
         Judged(q, keys), UNCHANGED <<published, quiet, tenant>>
  PROVE  Gate!Judge(q)
<1> DEFINE r == thread[q]
<1>1. PICK v \in {"admitted", "refused"} : v = Verdict(r.host, r.row, r.token, keys)
  BY VerdictIs
<1>2. Gate!Answer(q, v)
  BY <1>1, DoneAnswers DEF Judged
<1>3. /\ AskedAll[q].pc = "waiting" /\ AskedAll[q].host = r.host
      /\ AskedAll[q].token = r.token /\ AskedAll[q].row = r.row
  BY DEF AskedAll, Asked
<1>4. v = Verdict(AskedAll[q].host, AskedAll[q].row, AskedAll[q].token, keys)
  BY <1>1, <1>3
<1>5. keys \in Gate!Known(JwksUrl(AskedAll[q].row))
  BY <1>3 DEF Url
<1> QED BY <1>2, <1>3, <1>4, <1>5, Zenon DEF Gate!Judge, Gate!Answer, AskedAll, Asked, Waiting

\* A step of a waiting request is a verdict, a refusal or nothing.
LEMMA StepGates ==
  ASSUME KeysInv, RowsInv, NEW q \in Threads, Step(q) \/ FetchFails(q)
  PROVE  Gate!Judge(q) \/ Gate!Refuse(q) \/ AskedAll' = AskedAll
<1> DEFINE r == thread[q]
           u == Url(q)
<1>1. UNCHANGED <<published, quiet, tenant>> /\ r.pc \in Waiting
  BY DEF Step, Check, Acquire, Fetch, StoreKeys, FetchFails, Waiting
<1>2. u \in Urls /\ DOMAIN r = DOMAIN Free
  BY <1>1 DEF RowsInv, RowOK, Url
<1>3. ASSUME Cached(u) PROVE sets[u].keys \in Gate!Known(u)
  <2>1. StoredInv(u) /\ quiet[u] \in Nat
    BY <1>2, BoundNat DEF KeysInv, SetsInv
  <2>2. sets[u].keys \in KeyRange /\ Behind(sets[u].keys, published[u]) /\ sets[u].age \in Nat
        /\ sets[u].age < TTL /\ (quiet[u] > MaxLag + sets[u].age => sets[u].keys = published[u])
    BY <1>3, <2>1 DEF Cached, StoredInv
  <2>3. quiet[u] >= Bound => quiet[u] > MaxLag + sets[u].age
    BY <2>1, <2>2, BoundNat
  <2> QED BY <1>2, <2>2, <2>3, KeysKnown
<1>4. ASSUME NEW pc \in {"lock", "fetch"}, Put(q, [r EXCEPT !.pc = pc]) PROVE AskedAll' = AskedAll
  <2> DEFINE s == [r EXCEPT !.pc = pc]
  <2>1. s.pc \in Waiting /\ s.host = r.host /\ s.token = r.token /\ s.row = r.row
    BY <1>2 DEF Free, Waiting
  <2> HIDE DEF s
  <2>2. Put(q, s)
    BY <1>4 DEF s
  <2> QED BY <1>1, <2>1, <2>2, WaitingStays
<1>5. CASE Check(q)
  BY <1>1, <1>3, <1>4, <1>5, JudgedJudges DEF Check
<1>6. CASE Acquire(q)
  BY <1>1, <1>3, <1>4, <1>6, JudgedJudges DEF Acquire
<1>7. CASE Fetch(q)
  <2> DEFINE s == [r EXCEPT !.pc = "store", !.keys = published[Url(q)], !.lag = 0]
  <2>1. s.pc \in Waiting /\ s.host = r.host /\ s.token = r.token /\ s.row = r.row
    BY <1>2 DEF Free, Waiting
  <2> HIDE DEF s
  <2>2. Put(q, s)
    BY <1>7 DEF Fetch, s
  <2> QED BY <1>1, <2>1, <2>2, WaitingStays
<1>8. CASE StoreKeys(q)
  <2>1. r.lag \in 0..MaxLag /\ FetchedInv(r, u) /\ quiet[u] \in Nat
    BY <1>2, <1>8, BoundNat DEF StoreKeys, KeysInv, AnswerInv, SetsInv
  <2>2. quiet[u] >= Bound => quiet[u] > r.lag
    BY <2>1, BoundNat
  <2>3. r.keys \in Gate!Known(u)
    BY <1>2, <2>1, <2>2, KeysKnown DEF FetchedInv
  <2> QED BY <1>1, <1>8, <2>3, JudgedJudges DEF StoreKeys
<1>9. CASE FetchFails(q)
  BY <1>1, <1>9, DoneAnswers DEF FetchFails, Gate!Refuse
<1> QED BY <1>5, <1>6, <1>7, <1>8, <1>9 DEF Step

\* A request that arrives waits with its tenant's row, passes, or is refused.
LEMMA ArrivalGates ==
  ASSUME RowsInv, NEW q \in Threads, NEW hosts, DOMAIN hosts \in SUBSET {1, 2},
         NEW token \in Tokens \cup {Null}, WithTenant(q, hosts, token)
  PROVE  Gate!Ask(q) \/ Gate!Pass(q) \/ Gate!Refuse(q)
<1> DEFINE known == {i \in DOMAIN hosts : hosts[i] \in Hosts}
           h     == hosts[Min(known)]
           r     == [Free EXCEPT !.pc = "check", !.host = h, !.token = token, !.row = tenant[h]]
<1>1. UNCHANGED <<published, quiet, tenant>> /\ thread[q].pc \in {"free", "admitted", "refused"}
  BY DEF WithTenant
<1>2. AskedAll[q].pc # "waiting"
  BY <1>1 DEF AskedAll, Asked, Waiting
<1>3. CASE Done(q, "refused")
  BY <1>1, <1>3, DoneAnswers DEF Gate!Refuse
<1>4. CASE Config.dev /\ Done(q, "admitted")
  <2>1. Gate!Answer(q, "admitted")
    BY <1>1, <1>4, DoneAnswers
  <2> QED BY <1>2, <1>4, <2>1, Zenon DEF Gate!Pass, AskedAll, Asked, Waiting
<1>5. CASE known # {} /\ Put(q, r)
  <2>1. h \in DOMAIN tenant
    BY <1>5, FirstKnown DEF RowsInv
  <2>2. r.pc \in Waiting /\ r.host = h /\ r.token = token /\ r.row = tenant[h]
    BY DEF Free, Waiting
  <2> HIDE DEF r, h, known
  <2>3. Asked(r) = [pc |-> "waiting", host |-> h, token |-> token, row |-> tenant[h]]
    BY <2>2 DEF Asked
  <2>4. AskedAll' = [AskedAll EXCEPT ![q] = [pc |-> "waiting", host |-> h, token |-> token, row |-> tenant[h]]]
    BY <1>5, <2>3, AskedMoves
  <2> QED BY <1>1, <1>2, <2>1, <2>4, Zenon DEF Gate!Ask, AskedAll, Asked, Waiting
<1>6. Done(q, "refused") \/ (Config.dev /\ Done(q, "admitted")) \/ (known # {} /\ Put(q, r))
  BY DEF WithTenant, JWTAuth
<1> QED BY <1>3, <1>4, <1>5, <1>6

\* Every step of the token check, of the issuers, of the admins and of time is
\* one of KeyGate or leaves what it shows alone.
LEMMA NextGates ==
  KeysInv /\ RowsInv /\ [AuthnNext]_authnVars => [Gate!Next]_(Gate!vars)
<1> SUFFICES ASSUME KeysInv, RowsInv, [AuthnNext]_authnVars
             PROVE  Gate!Next \/ UNCHANGED <<published, quiet, tenant, AskedAll>>
  BY DEF Gate!vars, AskedAll, Asked, Waiting
<1>1. ASSUME NEW q \in Threads, NEW name \in Names, NEW token \in Tokens \cup {Null},
             Arrive(q, name, token) \/ LookupFails(q, name, token)
      PROVE  Gate!Next
  <2>1. Gate!Ask(q) \/ Gate!Pass(q) \/ Gate!Refuse(q)
    BY <1>1, PlacesTried, ArrivalGates DEF Arrive, LookupFails
  <2> QED BY <2>1 DEF Gate!Next
<1>2. ASSUME NEW q \in Threads, Step(q) \/ FetchFails(q)
      PROVE  Gate!Next \/ UNCHANGED <<published, quiet, tenant, AskedAll>>
  <2>1. UNCHANGED <<published, quiet, tenant>>
    BY <1>2 DEF Step, Check, Acquire, Fetch, StoreKeys, FetchFails
  <2>2. Gate!Judge(q) \/ Gate!Refuse(q) \/ AskedAll' = AskedAll
    BY <1>2, StepGates
  <2> QED BY <2>1, <2>2 DEF Gate!Next
<1>3. ASSUME UNCHANGED thread PROVE AskedAll' = AskedAll
  BY <1>3 DEF AskedAll, Asked
<1>4. CASE StartAdmin \/ StopAdmin \/ UNCHANGED authnVars
  BY <1>3, <1>4 DEF StartAdmin, StopAdmin, authnVars
<1>5. ASSUME NEW h \in Hosts, NEW row, Edit(h, row) PROVE Gate!Next
  <2>1. UNCHANGED <<published, quiet, AskedAll>> /\ tenant' = [tenant EXCEPT ![h] = tenant'[h]]
        /\ h \in DOMAIN tenant
    BY <1>3, <1>5 DEF Edit, RowsInv
  <2>2. Gate!Edit(h)
    BY <2>1 DEF Gate!Edit, AskedAll, Asked, Waiting
  <2> QED BY <2>1, <2>2 DEF Gate!Next
<1>6. ASSUME NEW u \in Urls, AddKey(u) \/ RetireKey(u) PROVE Gate!Next
  <2>1. /\ UNCHANGED <<tenant, AskedAll>> /\ quiet' = [quiet EXCEPT ![u] = 0]
        /\ \E keys \in {[published[u] EXCEPT !.high = @ + 1], [published[u] EXCEPT !.low = @ + 1]} :
             published' = [published EXCEPT ![u] = keys]
    BY <1>3, <1>6 DEF AddKey, RetireKey, Republish
  <2>2. Gate!Republish(u)
    BY <2>1 DEF Gate!Republish, AskedAll, Asked, Waiting
  <2> QED BY <2>2 DEF Gate!Next
<1>7. CASE Tick
  <2>1. \A q \in Threads : /\ thread'[q].pc = thread[q].pc /\ thread'[q].row = thread[q].row
                           /\ thread'[q].host = thread[q].host /\ thread'[q].token = thread[q].token
    BY <1>7 DEF Tick, RowsInv, Free
  <2>2. AskedAll' = AskedAll
    BY <2>1 DEF AskedAll, Asked
  <2>3. Gate!Tick
    BY <1>7, <2>2 DEF Tick, Gate!Tick, AskedAll, Asked, Waiting
  <2> QED BY <2>3 DEF Gate!Next
<1> QED BY <1>1, <1>2, <1>4, <1>5, <1>6, <1>7 DEF AuthnNext, putTenantOIDC, SeedTenant

\* The cache, its lock and its fetches implement KeyGate, for any number of
\* concurrent requests, any rewriting of tenants and any rotation of keys: a
\* verdict (auth.go, JWTAuth) is based on the row the tenant had when the
\* request arrived and on keys its issuer published, the present ones once they
\* have not changed for the lifetime of the cache and the time of a fetch.
THEOREM AuthnRefinesKeyGate == AuthnSpec => ImplementsKeyGate
<1>1. AuthnInit => Gate!Init
  <2> SUFFICES ASSUME AuthnInit PROVE Gate!Init
    OBVIOUS
  <2>1. \A q \in Threads : thread[q].pc = "free"
    BY DEF AuthnInit, Free
  <2> QED BY <2>1 DEF AuthnInit, Gate!Init
<1>2. KeysInv /\ RowsInv /\ [AuthnNext]_authnVars => [Gate!Next]_(Gate!vars)
  BY NextGates
<1> QED BY <1>1, <1>2, KeysInvariant, RowsInvariant, PTL DEF AuthnSpec, ImplementsKeyGate, Gate!Spec
=============================================================================
