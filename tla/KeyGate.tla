------------------------------- MODULE KeyGate -------------------------------
(***************************************************************************)
(* What the token check promises, without the cache of key sets, its lock, *)
(* the fetches and the admin API: a request is judged by the row that its  *)
(* tenant had when it arrived and by a key set that the issuer of that row *)
(* has published, which is the present one once it has not changed for a   *)
(* while.                                                                  *)
(***************************************************************************)
EXTENDS Integers

CONSTANTS
  Callers,               \* concurrent requests
  Given,                 \* the tokens they may bring, or what stands for none
  Urls,                  \* where key sets are published
  Settled,               \* time after which a change of a key set is known
  Open,                  \* whether a request may pass unjudged
  UrlOf(_),              \* where the keys for a tenant's row are published
  Judgement(_, _, _, _)  \* "admitted" or "refused": host, row, token, keys

VARIABLES
  published,  \* published[u]: [low, high]
  quiet,      \* quiet[u]: time since it changed
  tenant,     \* tenant[h]: the row of host h
  asked       \* asked[q]: the request of q

vars == <<published, quiet, tenant, asked>>

Init ==
  /\ published = [u \in Urls |-> [low |-> 1, high |-> 1]]
  /\ quiet = [u \in Urls |-> 0]
  /\ asked = [q \in Callers |-> [pc |-> "free"]]

\* A request arrives and finds the row of its tenant.
Ask(q) ==
  /\ UNCHANGED <<published, quiet, tenant>>
  /\ asked[q].pc # "waiting"
  /\ \E h \in DOMAIN tenant, token \in Given :
       asked' = [asked EXCEPT ![q] = [pc |-> "waiting", host |-> h, token |-> token, row |-> tenant[h]]]

Answer(q, verdict) ==
  /\ asked' = [asked EXCEPT ![q] = [pc |-> verdict]]
  /\ UNCHANGED <<published, quiet, tenant>>

Pass(q)   == Open /\ asked[q].pc # "waiting" /\ Answer(q, "admitted")
Refuse(q) == Answer(q, "refused")

\* The key sets that a verdict may be based on: no key that is still to be
\* published, and a retired one only for a while.
Known(u) ==
  IF quiet[u] >= Settled
    THEN {published[u]}
    ELSE [low : 0..published[u].low, high : 0..published[u].high]

Judge(q) ==
  LET r == asked[q] IN
  /\ r.pc = "waiting"
  /\ \E keys \in Known(UrlOf(r.row)) : Answer(q, Judgement(r.host, r.row, r.token, keys))

\* An issuer adds a key or retires its oldest.
Republish(u) ==
  /\ \E keys \in {[published[u] EXCEPT !.high = @ + 1], [published[u] EXCEPT !.low = @ + 1]} :
       published' = [published EXCEPT ![u] = keys]
  /\ quiet' = [quiet EXCEPT ![u] = 0]
  /\ UNCHANGED <<tenant, asked>>

\* The row of a tenant is rewritten.
Edit(h) ==
  /\ tenant' = [tenant EXCEPT ![h] = tenant'[h]]
  /\ UNCHANGED <<published, quiet, asked>>

Tick ==
  /\ quiet' = [u \in Urls |-> IF quiet[u] < Settled THEN quiet[u] + 1 ELSE quiet[u]]
  /\ UNCHANGED <<published, tenant, asked>>

Next ==
  \/ \E q \in Callers : Ask(q) \/ Pass(q) \/ Refuse(q) \/ Judge(q)
  \/ \E u \in Urls : Republish(u)
  \/ \E h \in DOMAIN tenant : Edit(h)
  \/ Tick

Spec == Init /\ [][Next]_vars
=============================================================================
