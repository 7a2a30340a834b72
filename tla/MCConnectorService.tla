------------------------- MODULE MCConnectorService --------------------------
(* Instances of ConnectorService for TLC. *)
EXTENDS ConnectorService, TLC

CONSTANTS a1, c1, c2, k1, k2, sealKey, x1, x2

MCSymmetry == Permutations(Callers)

MCShopify == Text(<<"shopify">>, FALSE)
Gift      == Text(<<"gift">>, FALSE)
Voucher   == Text(<<"voucher">>, FALSE)
Orders    == <<Text(<<"orders">>, FALSE)>>
Refund    == <<Text(<<"refund">>, FALSE)>>
Status    == <<Text(<<"status">>, FALSE)>>

MCSeedOps == <<[path |-> Refund, scopes |-> {"refund"}], [path |-> Refund, scopes |-> {"refund"}]>>

MCSample == Text(<<"sample">>, FALSE)
MCSlug   == <<<<"tenant">>>>

\* An update that asks for a scope where none was needed and changes the auth
\* configuration, and one that renames the kind.
MCBodies ==
  {[kind |-> Null, title |-> Null, url |-> FALSE, auth |-> x2, enabled |-> Null,
    ops |-> <<[path |-> Orders, scopes |-> {"orders"}, enabled |-> Null]>>],
   [kind |-> Voucher, title |-> Null, url |-> FALSE, auth |-> Null, enabled |-> Null, ops |-> <<>>]}

\* The seeded definition, which has no upstream, and a connector that has one.
MCFound ==
  {[defs |-> <<[kind |-> MCShopify, title |-> Null, url |-> FALSE, auth |-> Null, builtin |-> TRUE],
               [kind |-> Gift, title |-> Null, url |-> TRUE, auth |-> x1, builtin |-> FALSE]>>,
    enabled |-> <<TRUE, TRUE>>,
    ops |-> {[id |-> 1, def |-> 1, path |-> Refund, scopes |-> {"refund"}, enabled |-> TRUE, by |-> "seed"],
             [id |-> 2, def |-> 2, path |-> Orders, scopes |-> {}, enabled |-> TRUE, by |-> "admin"]}]}

MCRequests ==
  {[path |-> Orders, scopes |-> {}, machine |-> FALSE],
   [path |-> Refund, scopes |-> {"refund"}, machine |-> FALSE],
   [path |-> Status, scopes |-> {"status"}, machine |-> TRUE]}

MCCanonical == {[path |-> Status, scopes |-> {"status"}, userOnly |-> TRUE]}

MCAuthsFound == [a \in {x1} |-> {k1}]

\* A new secret, a rename, and a plain key in the config.
MCAuthBodies ==
  {[type |-> "api_key", config |-> {}, secrets |-> {k2}],
   [type |-> Null, config |-> Null, secrets |-> Null],
   [type |-> Null, config |-> {k2}, secrets |-> Null]}
=============================================================================
