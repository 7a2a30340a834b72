-------------------------------- MODULE Authn --------------------------------
(***************************************************************************)
(* Who is let in: the tenant of a request and its token                    *)
(* (pkg/middleware/tenant.go, auth.go), the JWKS cache the token's key is  *)
(* looked up in, the admin API's own check (adminapi/auth.go) and the two  *)
(* writers of a tenant's row (handlers_tenant.go, pkg/tenants/postgres.go).*)
(*                                                                         *)
(* The keys of a JWKS URL are numbered; an issuer publishes those of a     *)
(* range, adds the next one and retires the oldest.  jwksCache.get is      *)
(* modelled lock by lock: the check under the read lock is one step, as is *)
(* the second one under the write lock, which is then held over the fetch. *)
(***************************************************************************)
EXTENDS Integers, Sequences, FiniteSetsExt, Tenant

CONSTANTS
  Hosts,          \* host names, each that of one tenant
  Names,          \* host names that requests give
  LocalNames,     \* those by which local services reach each other
  Localhost,      \* the host they fall back on
  Urls,           \* JWKS URLs
  Seed,           \* Seed[h]: [issuer, jwks] of TENANT_SEED_JSON
  Config,         \* [issuer, jwks, audience, dev], the service's environment
  OIDCBodies,     \* bodies of putTenantOIDC: [issuer, audiences]
  MachineScopes,  \* MachineScopes[h]: machine_allowed_scopes
  RequiredACR,    \* RequiredACR[h]: partial function from scopes
  AdminConfig,    \* [jwks, issuer, audience] of the admin API
  Tokens,         \* what issuers sign
  Threads,        \* concurrent requests to one service
  TTL,            \* the lifetime of a cached key set
  MaxLag,         \* time within which a key set reaches the cache
  MaxKeys,        \* bound on the keys of a URL
  MaxEdits,       \* bound on the writes of tenant rows
  MaxRequests,    \* bound on the requests
  MaxFaults       \* bound on the fetches that fail

ASSUME AuthnAssumption ==
  /\ TTL \in Nat \ {0} /\ MaxLag \in Nat /\ MaxKeys \in Nat
  /\ Null \notin Threads
  /\ \A b \in OIDCBodies : b.audiences \in Seq(STRING)
  /\ Config.jwks \in Urls \cup {Null} /\ \A h \in Hosts : Seed[h].jwks \in Urls \cup {Null}

VARIABLES
  published,  \* published[u]: [low, high], the keys of u
  quiet,      \* history: quiet[u], time since they changed
  sets,       \* jwksCache.sets: [keys, age], keys Null where there is none
  lock,       \* the thread that holds jwksCache.mu for writing, or Null
  thread,     \* thread[q]: the request q is serving
  tenant,     \* table tenants: [issuer, jwks, audiences] of every host
  adminKeys,  \* App.adminJWKS, Null while the admin API is down
  edits, requests, faults

authnVars == <<published, quiet, sets, lock, thread, tenant, adminKeys, edits, requests, faults>>

Bound == MaxLag + TTL

Free == [pc |-> "free", host |-> Null, token |-> Null, row |-> Null, keys |-> Null, lag |-> 0]

AuthnInit ==
  /\ published = [u \in Urls |-> [low |-> 1, high |-> 1]]
  /\ quiet = [u \in Urls |-> 0]
  /\ sets = [u \in Urls |-> [keys |-> Null, age |-> 0]]
  /\ lock = Null
  /\ thread = [q \in Threads |-> Free]
  /\ tenant = [h \in Hosts |-> [issuer |-> Seed[h].issuer, jwks |-> Seed[h].jwks, audiences |-> <<>>]]
  /\ adminKeys = Null
  /\ edits = 0 /\ requests = 0 /\ faults = 0

-----------------------------------------------------------------------------
(* The token checks *)

Issuer(row)    == IF row.issuer = Null THEN Config.issuer ELSE row.issuer
JwksUrl(row)   == IF row.jwks = Null THEN Config.jwks ELSE row.jwks
Audiences(row) == IF row.audiences = <<>> /\ Config.audience # Null THEN <<Config.audience>> ELSE row.audiences

InKeys(token, u, keys) == token.url = u /\ token.key \in keys.low..keys.high

AudienceFitsWhenOne(row, token) ==
  LET accepted == Audiences(row) IN
  Len(accepted) = 1 => accepted[1] \in token.aud

\* One accepted audience is checked by the parser, several by the loop after it.
AudienceFits(row, token) ==
  LET accepted == Audiences(row) IN
  CASE Len(accepted) = 0 -> TRUE
    [] Len(accepted) = 1 -> accepted[1] \in token.aud
    [] OTHER             -> \E i \in DOMAIN accepted : accepted[i] \in token.aud

TenantFits(h, token) == token.tid \in {Null, h}

ScopesFit(h, token) ==
  token.machine /\ MachineScopes[h] # {} => token.scopes \subseteq MachineScopes[h]

\* A token without an acr claim is not asked for one.
ACRFits(h, token) ==
  token.acr # Null =>
    \A s \in DOMAIN RequiredACR[h] : s \in token.scopes => token.acr = RequiredACR[h][s]

\* 401 up to the audiences, 403 after them.
Verdict(h, row, token, keys) ==
  IF /\ token # Null
     /\ InKeys(token, JwksUrl(row), keys)
     /\ token.iss = Issuer(row) /\ ~token.expired
     /\ AudienceFits(row, token)
     /\ TenantFits(h, token) /\ ScopesFit(h, token) /\ ACRFits(h, token)
    THEN "admitted" ELSE "refused"

-----------------------------------------------------------------------------
(* Requests *)

Put(q, r)  == thread' = [thread EXCEPT ![q] = r]
Done(q, v) == Put(q, [Free EXCEPT !.pc = v])

Judged(q, keys) == Done(q, Verdict(thread[q].host, thread[q].row, thread[q].token, keys))

\* In development a request without a token passes, and without an issuer or a
\* URL none does.
JWTAuth(q, h, token) ==
  LET row == tenant[h] IN
  CASE Config.dev /\ token = Null -> Done(q, "admitted")
    [] ~(Config.dev /\ token = Null)
       /\ (Issuer(row) = Null \/ JwksUrl(row) = Null) -> Done(q, "refused")
    [] OTHER -> Put(q, [Free EXCEPT !.pc = "check", !.host = h, !.token = token, !.row = row])

\* The tenant is looked up by host, then by what the host stands for: 404 when
\* neither is there.
WithTenant(q, tryHosts, token) ==
  LET known == {i \in DOMAIN tryHosts : tryHosts[i] \in Hosts} IN
  /\ thread[q].pc \in {"free", "admitted", "refused"}
  /\ requests < MaxRequests
  /\ requests' = requests + 1
  /\ token # Null /\ token.url \in Urls => token.key <= published[token.url].high
  /\ IF known = {} THEN Done(q, "refused") ELSE JWTAuth(q, tryHosts[Min(known)], token)
  /\ UNCHANGED <<published, quiet, sets, lock, tenant, adminKeys, edits, faults>>

Fallback(name) == IF name \in LocalNames THEN <<Localhost>> ELSE <<>>

Arrive(q, name, token) == WithTenant(q, <<name>> \o Fallback(name), token)

\* A lookup that fails is taken for a host without a tenant: the next is tried.
\* It may fail for any request, so it needs no bound of its own.
LookupFails(q, name, token) == WithTenant(q, Fallback(name), token)

CachedAtExpiry(u) == sets[u].keys # Null /\ sets[u].age <= TTL

Cached(u) == sets[u].keys # Null /\ sets[u].age < TTL

Url(q) == JwksUrl(thread[q].row)

\* Under the read lock.
Check(q) ==
  /\ thread[q].pc = "check"
  /\ lock = Null
  /\ IF Cached(Url(q)) THEN Judged(q, sets[Url(q)].keys)
                       ELSE Put(q, [thread[q] EXCEPT !.pc = "lock"])
  /\ UNCHANGED <<published, quiet, sets, lock, tenant, adminKeys, edits, requests, faults>>

AcquireNoRecheck(q) ==
  /\ thread[q].pc = "lock"
  /\ lock = Null
  /\ Put(q, [thread[q] EXCEPT !.pc = "fetch"]) /\ lock' = q
  /\ UNCHANGED <<published, quiet, sets, tenant, adminKeys, edits, requests, faults>>

AcquireShared(q) ==
  /\ thread[q].pc = "lock"
  /\ Put(q, [thread[q] EXCEPT !.pc = "fetch"])
  /\ UNCHANGED <<published, quiet, sets, lock, tenant, adminKeys, edits, requests, faults>>

\* Under the write lock, which is released at once when another request has
\* fetched the keys meanwhile.
Acquire(q) ==
  /\ thread[q].pc = "lock"
  /\ lock = Null
  /\ IF Cached(Url(q)) THEN Judged(q, sets[Url(q)].keys) /\ UNCHANGED lock
                       ELSE Put(q, [thread[q] EXCEPT !.pc = "fetch"]) /\ lock' = q
  /\ UNCHANGED <<published, quiet, sets, tenant, adminKeys, edits, requests, faults>>

\* The issuer's answer, still on its way.
Fetch(q) ==
  /\ thread[q].pc = "fetch"
  /\ Put(q, [thread[q] EXCEPT !.pc = "store", !.keys = published[Url(q)], !.lag = 0])
  /\ UNCHANGED <<published, quiet, sets, lock, tenant, adminKeys, edits, requests, faults>>

FetchFailsLocked(q) ==
  /\ thread[q].pc \in {"fetch", "store"}
  /\ faults < MaxFaults
  /\ faults' = faults + 1
  /\ Done(q, "refused")
  /\ UNCHANGED <<published, quiet, sets, lock, tenant, adminKeys, edits, requests>>

\* No answer, or none before the caller hung up: 500, and nothing is cached.
FetchFails(q) ==
  /\ thread[q].pc \in {"fetch", "store"}
  /\ faults < MaxFaults
  /\ faults' = faults + 1
  /\ Done(q, "refused")
  /\ lock' = Null
  /\ UNCHANGED <<published, quiet, sets, tenant, adminKeys, edits, requests>>

StoreKeys(q) ==
  /\ thread[q].pc = "store"
  /\ sets' = [sets EXCEPT ![Url(q)] = [keys |-> thread[q].keys, age |-> 0]]
  /\ Judged(q, thread[q].keys)
  /\ lock' = Null
  /\ UNCHANGED <<published, quiet, tenant, adminKeys, edits, requests, faults>>

-----------------------------------------------------------------------------
(* The admin API and the tenants' rows *)

\* mustJWKS: the keys are fetched once, when the admin API starts.
StartAdmin ==
  /\ adminKeys = Null
  /\ adminKeys' = published[AdminConfig.jwks]
  /\ UNCHANGED <<published, quiet, sets, lock, thread, tenant, edits, requests, faults>>

StopAdmin ==
  /\ adminKeys # Null
  /\ adminKeys' = Null
  /\ UNCHANGED <<published, quiet, sets, lock, thread, tenant, edits, requests, faults>>

\* The tenant is the token's or, where it names none, that of a header.
adminAuth(token, h) ==
  /\ adminKeys # Null
  /\ InKeys(token, AdminConfig.jwks, adminKeys)
  /\ token.iss = AdminConfig.issuer /\ AdminConfig.audience \in token.aud
  /\ ~token.expired /\ token.admin
  /\ TenantFits(h, token)

Edit(h, row) ==
  /\ edits < MaxEdits
  /\ edits' = edits + 1
  /\ tenant' = [tenant EXCEPT ![h] = row]
  /\ UNCHANGED <<published, quiet, sets, lock, thread, adminKeys, requests, faults>>

\* The issuer changes and jwks_url does not: no handler writes it.
putTenantOIDC(token, h, b) ==
  /\ adminAuth(token, h)
  /\ b.issuer # Null /\ b.audiences # <<>>
  /\ Edit(h, [tenant[h] EXCEPT !.issuer = b.issuer, !.audiences = b.audiences])

\* Every start of a service writes the seed's issuer and URL over the row's.
SeedTenant(h) == Edit(h, [tenant[h] EXCEPT !.issuer = Seed[h].issuer, !.jwks = Seed[h].jwks])

-----------------------------------------------------------------------------
(* Issuers and time *)

Republish(u, keys) ==
  /\ published' = [published EXCEPT ![u] = keys]
  /\ quiet' = [quiet EXCEPT ![u] = 0]
  /\ UNCHANGED <<sets, lock, thread, tenant, adminKeys, edits, requests, faults>>

AddKey(u) ==
  /\ published[u].high < MaxKeys
  /\ Republish(u, [published[u] EXCEPT !.high = @ + 1])

RetireKey(u) ==
  /\ published[u].low < published[u].high
  /\ Republish(u, [published[u] EXCEPT !.low = @ + 1])

Tick ==
  /\ \A q \in Threads : thread[q].pc = "store" => thread[q].lag < MaxLag
  /\ thread' = [q \in Threads |->
                  IF thread[q].pc = "store" THEN [thread[q] EXCEPT !.lag = @ + 1] ELSE thread[q]]
  /\ sets' = [u \in Urls |->
                IF sets[u].keys = Null \/ sets[u].age > TTL THEN sets[u]
                                                            ELSE [sets[u] EXCEPT !.age = @ + 1]]
  /\ quiet' = [u \in Urls |-> IF quiet[u] < Bound THEN quiet[u] + 1 ELSE quiet[u]]
  /\ UNCHANGED <<published, lock, tenant, adminKeys, edits, requests, faults>>

-----------------------------------------------------------------------------
Step(q) == Check(q) \/ Acquire(q) \/ Fetch(q) \/ StoreKeys(q)

AuthnNext ==
  \/ \E q \in Threads, name \in Names, token \in Tokens \cup {Null} :
       Arrive(q, name, token) \/ LookupFails(q, name, token)
  \/ \E q \in Threads : Step(q)
  \/ \E q \in Threads : FetchFails(q)
  \/ StartAdmin \/ StopAdmin
  \/ \E token \in Tokens, h \in Hosts, b \in OIDCBodies : putTenantOIDC(token, h, b)
  \/ \E h \in Hosts : SeedTenant(h)
  \/ \E u \in Urls : AddKey(u) \/ RetireKey(u)
  \/ Tick

\* A request's own steps go on.  The lock is handed on to those who wait, so
\* taking it is strongly fair; a fetch ends.
AuthnFairness ==
  \A q \in Threads :
    /\ WF_authnVars(Fetch(q) \/ StoreKeys(q))
    /\ SF_authnVars(Check(q))
    /\ SF_authnVars(Acquire(q))

AuthnSpec == AuthnInit /\ [][AuthnNext]_authnVars /\ AuthnFairness

-----------------------------------------------------------------------------
(* Properties *)

\* A key set that is served from the cache is the issuer's, once the issuer has
\* not changed it for the lifetime of the cache and the time of a fetch: by
\* then a retired key opens nothing and a new key is known.
KeysCurrent ==
  \A u \in Urls : Cached(u) /\ quiet[u] >= Bound => sets[u].keys = published[u]

\* The cache never goes back to an older key set, however requests overlap.
CacheAdvances ==
  [][\A u \in Urls : sets[u].keys # Null =>
       /\ sets'[u].keys.low >= sets[u].keys.low
       /\ sets'[u].keys.high >= sets[u].keys.high]_authnVars

\* The keys are fetched once: requests that waited while another one fetched
\* them use what it found.
FetchedOnce ==
  [][\A q \in Threads : thread[q].pc = "lock" /\ thread'[q].pc = "fetch" => ~Cached(Url(q))]_authnVars

\* Whoever is admitted by a token had one for the tenant of the request, from
\* the issuer that its row named, and for one of its audiences however many.
AdmittedRightly ==
  [][\A q \in Threads :
       LET r == thread[q]
           accepted == {r.row.audiences[i] : i \in DOMAIN r.row.audiences}
       IN
       r.pc \in {"check", "lock", "store"} /\ thread'[q].pc = "admitted" =>
         /\ r.token.tid \in {Null, r.host}
         /\ r.token.iss = Issuer(r.row)
         /\ accepted # {} => accepted \cap r.token.aud # {}]_authnVars

\* The cache, its lock and the fetches implement KeyGate: however they overlap,
\* a verdict is based on the row that the tenant had when the request arrived
\* and on keys that its issuer has published, the present ones once they have
\* not changed for the lifetime of the cache and the time of a fetch.
Gate == INSTANCE KeyGate WITH
  Callers <- Threads, Given <- Tokens \cup {Null}, Settled <- Bound, Open <- Config.dev,
  UrlOf <- JwksUrl, Judgement <- Verdict,
  asked <- [q \in Threads |->
              IF thread[q].pc \in {"check", "lock", "fetch", "store"}
                THEN [pc |-> "waiting", host |-> thread[q].host, token |-> thread[q].token,
                      row |-> thread[q].row]
                ELSE [pc |-> thread[q].pc]]

ImplementsKeyGate == Gate!Spec

\* Every request is answered, although all wait while one fetches.
RequestsJudged ==
  \A q \in Threads :
    thread[q].pc \in {"check", "lock", "fetch", "store"}
      ~> thread[q].pc \in {"admitted", "refused"}
=============================================================================
