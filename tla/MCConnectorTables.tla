-------------------------- MODULE MCConnectorTables --------------------------
(* Instances of ConnectorTables for TLC. *)
EXTENDS ConnectorTables, TLC

CONSTANTS a1, a2, s1, s2

MCShopify == Text(<<"shopify">>, FALSE)
GiftCard  == Text(<<"gift", "card">>, TRUE)
Refund    == Text(<<"refund">>, FALSE)
Orders    == Text(<<"orders">>, FALSE)

\* /v1/checkout-link and /v1/orders/{id}/refund
MCSeedOps ==
  <<[path |-> <<Blank, Text(<<"checkout", "link">>, FALSE)>>, scopes |-> {"order:write"}],
    [path |-> <<Blank, Orders, Blank, Refund>>, scopes |-> {"refund:write"}]>>

MCSymmetry == Permutations(Admins)

MCSample == Text(<<"sample", "connector">>, FALSE)
MCNames  == {GiftCard}
MCImport == Text(<<"imported">>, FALSE)
MCSlug   == <<<<"tenant">>>>

Op(path, on) == [path |-> path, scopes |-> {}, enabled |-> on]

Body(kind, title, on, list) ==
  [kind |-> kind, title |-> title, url |-> TRUE, auth |-> Null, enabled |-> on, ops |-> list]

\* A connector with two operations; one named like the seeded one, with a
\* camel-case path; a body that only renames; one that replaces the operations.
MCBodies ==
  {Body(GiftCard, Null, Null, <<Op(<<Orders>>, Null), Op(<<Orders, Refund>>, Null)>>),
   Body(MCShopify, GiftCard, FALSE, <<Op(<<Orders, GiftCard>>, FALSE)>>),
   Body(Null, Null, TRUE, <<Op(<<Refund>>, Null)>>)}

\* A new database, and one with the seeded definition and a custom connector.
Def(kind, builtin) ==
  [kind |-> kind, title |-> Null, url |-> ~builtin, auth |-> Null, builtin |-> builtin]
Row(id, d, op, by) ==
  [id |-> id, def |-> d, path |-> op.path, scopes |-> op.scopes, enabled |-> TRUE, by |-> by]

MCFound ==
  {[defs |-> <<>>, ops |-> {}, enabled |-> <<>>],
   [defs |-> <<Def(MCShopify, TRUE), Def(GiftCard, FALSE)>>, enabled |-> <<TRUE, TRUE>>,
    ops |-> {Row(1, 1, MCSeedOps[1], "seed"), Row(2, 1, MCSeedOps[2], "seed"),
             Row(3, 2, Op(<<Orders>>, TRUE), "admin"), Row(4, 2, Op(<<Orders, Refund>>, TRUE), "admin")}]}
=============================================================================
