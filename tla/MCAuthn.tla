------------------------------- MODULE MCAuthn -------------------------------
(* Instances of Authn for TLC. *)
EXTENDS Authn

CONSTANTS h1, h2, n1, u1, i1, i2, q1, q2

\* n1 has no tenant; n1 and h2 are local names, for h1.  A name that is neither
\* is answered as h1 is when its lookup fails.
MCSeed ==
  [h \in Hosts |-> IF h = h1 THEN [issuer |-> i1, jwks |-> u1] ELSE [issuer |-> Null, jwks |-> Null]]

MCConfig == [issuer |-> i2, jwks |-> u1, audience |-> Null, dev |-> TRUE]
MCAdmin  == [jwks |-> u1, issuer |-> i1, audience |-> "admin"]

MCBodies == {[issuer |-> i1, audiences |-> <<"a", "b">>]}

MCMachine == [h \in Hosts |-> IF h = h1 THEN {"pay"} ELSE {"read"}]
MCACR     == [h \in Hosts |-> [s \in (IF h = h1 THEN {} ELSE {"pay"}) |-> "strong"]]

Token(u, key, iss, aud, tid) ==
  [url |-> u, key |-> key, iss |-> iss, aud |-> aud, tid |-> tid, scopes |-> {"pay"},
   machine |-> FALSE, acr |-> Null, expired |-> FALSE, admin |-> FALSE]

\* Tokens of either issuer and either key: an admin's, a machine's, and one
\* with an acr claim.
MCTokens ==
  {[Token(u1, 1, i1, {"b", "admin"}, h1) EXCEPT !.admin = TRUE],
   [Token(u1, 2, i1, {"c"}, Null) EXCEPT !.machine = TRUE],
   [Token(u1, 1, i2, {"c"}, Null) EXCEPT !.acr = "weak"]}
=============================================================================
