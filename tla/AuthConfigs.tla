----------------------------- MODULE AuthConfigs -----------------------------
(***************************************************************************)
(* The auth configurations of one tenant (table tenant_auth_configs), the  *)
(* admin API's handlers that write them and the lookup that turns one into *)
(* the key of an outgoing call (adminapi/handlers_marketplace_auth.go,     *)
(* adminapi/crypto.go, connector/handler.go).                              *)
(*                                                                         *)
(* Of a config and of the secrets only the api_key counts: a set with one  *)
(* key, the empty set, or Null when the body has no such object.  A sealed *)
(* blob is what it holds and the key it was sealed with, Null for the      *)
(* plain JSON that encryptJSON writes without one.                         *)
(***************************************************************************)
EXTENDS Tenant

CONSTANTS
  AuthIds,     \* ids of auth configurations
  AdminKey,    \* ENCRYPTION_KEY of the admin API, Null when it is not set
  ServiceKey   \* ENCRYPTION_KEY of the connector service

VARIABLES
  auths,   \* the table: partial function from AuthIds
  put      \* history: the secrets last put into each configuration, for
           \* every id that was ever used

authVars == <<auths, put>>

Presence(s) == IF s = Null THEN {} ELSE s

\* AES-GCM is taken to be sound: what was sealed with one key is opened with
\* that key only.
encryptJSON(secrets) == [with |-> AdminKey, secrets |-> Presence(secrets)]

decryptSecrets(blob) ==
  IF ServiceKey # Null /\ blob.with = ServiceKey THEN blob.secrets ELSE {}

\* The key for a call by a configuration: a config's plain one comes first.
ApiKey(a) ==
  CASE a \notin DOMAIN auths          -> {}
    [] auths[a].type # "api_key"      -> {}
    [] auths[a].config # {}           -> auths[a].config
    [] OTHER                          -> decryptSecrets(auths[a].sealed)

-----------------------------------------------------------------------------
\* Ids are new ones; config is NOT NULL.
createAuth(a, type, config, secrets) ==
  /\ a \notin DOMAIN put
  /\ config # Null
  /\ auths' = [x \in DOMAIN auths \cup {a} |->
                 IF x = a THEN [type |-> type, config |-> config, sealed |-> encryptJSON(secrets)]
                          ELSE auths[x]]
  /\ put' = [x \in DOMAIN put \cup {a} |-> IF x = a THEN Presence(secrets) ELSE put[x]]

updateAuthResealing(a, type, config, secrets) ==
  /\ a \in DOMAIN auths
  /\ auths' = [auths EXCEPT ![a] =
                 [type   |-> IF type = Null THEN @.type ELSE type,
                  config |-> IF config = Null THEN @.config ELSE config,
                  sealed |-> encryptJSON(secrets)]]
  /\ put' = [put EXCEPT ![a] = IF secrets = Null THEN @ ELSE secrets]

\* Each column that the body leaves out keeps its value.
updateAuth(a, type, config, secrets) ==
  /\ a \in DOMAIN auths
  /\ auths' = [auths EXCEPT ![a] =
                 [type   |-> IF type = Null THEN @.type ELSE type,
                  config |-> IF config = Null THEN @.config ELSE config,
                  sealed |-> IF secrets = Null THEN @.sealed ELSE encryptJSON(secrets)]]
  /\ put' = [put EXCEPT ![a] = IF secrets = Null THEN @ ELSE secrets]

\* Nothing keeps a definition from referring to the deleted row.
deleteAuth(a) ==
  /\ a \in DOMAIN auths
  /\ auths' = [x \in DOMAIN auths \ {a} |-> auths[x]]
  /\ UNCHANGED put
=============================================================================
