---------------------------- MODULE OperationKeys ----------------------------
(***************************************************************************)
(* Action keys: how the manifest names an operation, how enabling a        *)
(* connector names an action, and which operation the orchestrator runs    *)
(* for a key (manifest/service.go, orchestrator/service.go,                *)
(* adminapi/handlers_connectors.go).                                       *)
(*                                                                         *)
(* A text is the sequence of its words, joined by separators ("Gift Card") *)
(* or, when camel, by capitals ("GiftCard").  A slug is a sequence of      *)
(* parts, each the words it runs together: <<"gift">>, <<"card">> stands   *)
(* for gift-card and <<"gift", "card">> for giftcard.                      *)
(***************************************************************************)
EXTENDS FiniteSetsExt, Sequences, Integers

Text(words, camel) == [words |-> words, camel |-> camel]

Blank == Text(<<>>, FALSE)   \* empty, or only spaces
Marks == Text(<<>>, TRUE)    \* neither letters nor digits

\* A path is the sequence of its segments; parameters and v1, which both
\* derivations skip, are written as Blank.
Root   == <<<<"root">>>>
Action == <<<<"action">>>>

\* Capitals and separators become hyphens.
slug(t) == [i \in DOMAIN t.words |-> <<t.words[i]>>]

\* Only separators become hyphens.
lowered(t) == IF t.camel /\ t.words # <<>> THEN <<t.words>> ELSE slug(t)

\* The same in the admin API, which never returns an empty key for a text.
slugify(t) == IF t = Marks THEN Action ELSE lowered(t)

Statics(path) == {i \in DOMAIN path : path[i].words # <<>>}

LastStatic(path) == path[Max(Statics(path))]

\* The short name the orchestrator derives from a path, and the manifest's.
deriveShort(path) ==
  CASE path = <<>> -> Root
    [] path # <<>> /\ Statics(path) = {} -> Action
    [] OTHER -> slug(LastStatic(path))

deriveName(path) ==
  CASE path = <<>> -> Root
    [] path # <<>> /\ Statics(path) = {} -> Action
    [] OTHER -> lowered(LastStatic(path))

\* The key BuildManifest advertises for an operation: the tenant's slug
\* stands in for a connector kind that has none.
ManifestKey(tenantSlug, kind, path) ==
  [ns    |-> IF slug(kind) = <<>> THEN tenantSlug ELSE slug(kind),
   short |-> deriveName(path)]

\* The key of the action that enabling a connector inserts: it has no short.
SeededKey(display) == [ns |-> slugify(display), short |-> <<>>]

\* The rows of the key's namespace, by kind or by title.
Namesakes(rows, key) ==
  {r \in rows : slug(r.kind) = key.ns \/ slug(r.title) = key.ns}

\* What Execute may run for a key, given the rows its query returned: any row
\* whose short name is the key's or, when there is none, whichever row of the
\* namespace comes first.
Resolutions(rows, key) ==
  LET exact == {r \in Namesakes(rows, key) : deriveShort(r.path) = key.short} IN
  IF exact # {} THEN exact ELSE Namesakes(rows, key)
=============================================================================
