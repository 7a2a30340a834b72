---------------------------- MODULE PolicyVersions ----------------------------
(***************************************************************************)
(* The policy_versions table of one tenant and the admin-api handlers that *)
(* write it (internal/adminapi/handlers_policies.go).                      *)
(*                                                                         *)
(* A row is identified by (action_key, version), which the table keeps     *)
(* unique.  Handlers run concurrently, one request per process; a process  *)
(* step is one SQL statement, because between two statements of a handler  *)
(* any other handler may run.  The publish UPDATE takes two steps: under   *)
(* READ COMMITTED (the default of the connection pool) it first fixes the  *)
(* set of rows it will touch and then locks, re-reads and writes them.     *)
(***************************************************************************)
EXTENDS Tenant, FiniteSetsExt

CONSTANTS
  Codes,        \* rego modules that PrepareForEval accepts
  NoCode,       \* the empty module text
  VersionNos,   \* version numbers in use (bounds the table)
  Creators,     \* concurrent createPolicyVersion requests
  Publishers    \* concurrent publishPolicyVersion requests

ASSUME PolicyVersionsAssumption ==
  /\ NoCode \notin Codes
  /\ VersionNos \subseteq Int
  /\ 1 \in VersionNos
  /\ \E max \in VersionNos : \A v \in VersionNos : v <= max  \* version INT

VARIABLES
  rowStatus,    \* rowStatus[a][v]: column status, "absent" when there is no row
  rowCode,      \* rowCode[a][v]: column compiled_rego
  creator,      \* creator[p]: the create request p is serving
  publisher     \* publisher[p]: the publish request p is serving

policyVars == <<rowStatus, rowCode, creator, publisher>>

Statuses == {"absent", "draft", "published", "archived"}
Replies  == {"none", "ok", "db error", "not found"}

Idle(reply) == [pc |-> "idle", reply |-> reply]

\* What the caller of a statement that was executed is told: the connection
\* may break between the commit and the reply.
Told(reply) == {reply} \cup (IF Faults THEN {"db error"} ELSE {})

IdleStates   == [pc : {"idle"}, reply : Replies]
CreateStates == [pc : {"upsert"}, action : ActionKeys, code : Codes,
                 version : VersionNos]
UpdateStates == [pc : {"update"}, action : ActionKeys, version : VersionNos,
                 seen : SUBSET VersionNos]

PolicyTypeOK ==
  /\ rowStatus \in [ActionKeys -> [VersionNos -> Statuses]]
  /\ rowCode   \in [ActionKeys -> [VersionNos -> Codes \cup {NoCode}]]
  /\ creator   \in [Creators -> IdleStates \cup CreateStates]
  /\ publisher \in [Publishers -> IdleStates \cup UpdateStates]

PolicyInit ==
  /\ rowStatus = [a \in ActionKeys |-> [v \in VersionNos |-> "absent"]]
  /\ rowCode   = [a \in ActionKeys |-> [v \in VersionNos |-> NoCode]]
  /\ creator   = [p \in Creators |-> Idle("none")]
  /\ publisher = [p \in Publishers |-> Idle("none")]

-----------------------------------------------------------------------------
(* Reading the table *)

Existing(a)  == {v \in VersionNos : rowStatus[a][v] # "absent"}
Published(a) == {v \in VersionNos : rowStatus[a][v] = "published"}

\* The query of Evaluate: the published row with the highest version; with no
\* row the scanned variables keep their zero values.  Evaluate then looks at
\* the module only, so a version numbered 0 is evaluated like any other.
LoadPublished(a) ==
  IF Published(a) = {}
    THEN [ver |-> 0, mod |-> NoCode]
    ELSE LET v == Max(Published(a)) IN [ver |-> v, mod |-> rowCode[a][v]]

\* What getActivePolicy answers when it can read the table: by the same query,
\* but the number 0 stands for having no row, so a live version 0 is "none".
NoActivePolicy == [version |-> 0, status |-> "none", code |-> NoCode]

ActivePolicy(a) ==
  LET row == LoadPublished(a) IN
  IF row.ver = 0 THEN NoActivePolicy
                 ELSE [version |-> row.ver, status |-> "published", code |-> row.mod]

\* COALESCE(MAX(version)+1, 1), and 1 in place of a computed 0.
NextVersion(a) ==
  IF Existing(a) = {} \/ Max(Existing(a)) + 1 = 0 THEN 1 ELSE Max(Existing(a)) + 1

-----------------------------------------------------------------------------
(* createPolicyVersion.  Code that does not compile is answered with an    *)
(* error before the table is read, so only Codes reach these steps.        *)

BeginUpsert(p, a, c, v) ==
  /\ creator[p].pc = "idle"
  /\ v \in VersionNos
  /\ creator' = [creator EXCEPT ![p] =
                   [pc |-> "upsert", action |-> a, code |-> c, version |-> v]]
  /\ UNCHANGED <<rowStatus, rowCode, publisher>>

\* The body carries a version number.
CreateExplicit(p, a, c, v) == BeginUpsert(p, a, c, v)

\* The body carries none: the next one is read from the table.
CreateNumbered(p, a, c) == BeginUpsert(p, a, c, NextVersion(a))

\* As above, but the read fails: its error is dropped and 0 becomes 1.
CreateNumberedReadFails(p, a, c) ==
  /\ Faults
  /\ BeginUpsert(p, a, c, 1)

\* The status column after the upsert.
UpsertedStatusKept(a, v) == IF rowStatus[a][v] = "absent" THEN "draft" ELSE rowStatus[a][v]

UpsertedStatusFirstLive(a, v) == IF Existing(a) = {} THEN "published" ELSE "draft"

UpsertedStatusUnknown(a, v) == "new"

UpsertedStatus(a, v) == "draft"

UpsertUncompiled(p) ==
  LET r == creator[p] IN
  /\ r.pc = "upsert"
  /\ rowStatus' = [rowStatus EXCEPT ![r.action][r.version] = "draft"]
  /\ rowCode'   = [rowCode EXCEPT ![r.action][r.version] = NoCode]
  /\ \E reply \in Told("ok") : creator' = [creator EXCEPT ![p] = Idle(reply)]
  /\ UNCHANGED publisher

\* INSERT ... ON CONFLICT DO UPDATE: a row that exists is rewritten and goes
\* back to draft, whatever its status was.
Upsert(p) ==
  LET r == creator[p] IN
  /\ r.pc = "upsert"
  /\ rowStatus' = [rowStatus EXCEPT ![r.action][r.version] =
                     UpsertedStatus(r.action, r.version)]
  /\ rowCode'   = [rowCode EXCEPT ![r.action][r.version] = r.code]
  /\ \E reply \in Told("ok") : creator' = [creator EXCEPT ![p] = Idle(reply)]
  /\ UNCHANGED publisher

UpsertFails(p) ==
  /\ Faults
  /\ creator[p].pc = "upsert"
  /\ creator' = [creator EXCEPT ![p] = Idle("db error")]
  /\ UNCHANGED <<rowStatus, rowCode, publisher>>

-----------------------------------------------------------------------------
(* publishPolicyVersion *)

\* The UPDATE starts: its snapshot fixes which rows match the action.
PublishStart(p, a, v) ==
  /\ publisher[p].pc = "idle"
  /\ publisher' = [publisher EXCEPT ![p] =
                     [pc |-> "update", action |-> a, version |-> v,
                      seen |-> Existing(a)]]
  /\ UNCHANGED <<rowStatus, rowCode, creator>>

\* CASE WHEN version = $3 THEN 'published' ELSE 'archived' END
StatusAfterPublishNoArchive(v, named, old) == IF v = named THEN "published" ELSE old

StatusAfterPublishSwapped(v, named, old) == IF v = named THEN "archived" ELSE "published"

StatusAfterPublish(v, named, old) == IF v = named THEN "published" ELSE "archived"

\* The UPDATE commits.  Rows inserted after its snapshot are not touched.
\* No matched row is answered with 404, any matched row with ok.
PublishCommit(p) ==
  LET r == publisher[p] IN
  /\ r.pc = "update"
  /\ rowStatus' = [rowStatus EXCEPT ![r.action] =
                     [v \in VersionNos |->
                        IF v \in r.seen THEN StatusAfterPublish(v, r.version, @[v])
                                        ELSE @[v]]]
  /\ \E reply \in Told(IF r.seen = {} THEN "not found" ELSE "ok") :
       publisher' = [publisher EXCEPT ![p] = Idle(reply)]
  /\ UNCHANGED <<rowCode, creator>>

PublishFails(p) ==
  /\ Faults
  /\ publisher[p].pc = "update"
  /\ publisher' = [publisher EXCEPT ![p] = Idle("db error")]
  /\ UNCHANGED <<rowStatus, rowCode, creator>>

-----------------------------------------------------------------------------
CreateNext(p) ==
  \/ \E a \in ActionKeys, c \in Codes, v \in VersionNos : CreateExplicit(p, a, c, v)
  \/ \E a \in ActionKeys, c \in Codes : CreateNumbered(p, a, c)
  \/ \E a \in ActionKeys, c \in Codes : CreateNumberedReadFails(p, a, c)
  \/ Upsert(p)
  \/ UpsertFails(p)

PublishNext(p) ==
  \/ \E a \in ActionKeys, v \in VersionNos : PublishStart(p, a, v)
  \/ PublishCommit(p)
  \/ PublishFails(p)

PolicyNext ==
  \/ \E p \in Creators : CreateNext(p)
  \/ \E p \in Publishers : PublishNext(p)

PolicySpec == PolicyInit /\ [][PolicyNext]_policyVars

-----------------------------------------------------------------------------
(* Properties *)

\* At most one version of an action is published, so that "the published
\* policy" of Evaluate's and getActivePolicy's query names one row.  It relies
\* on publishes of one action not overlapping.
AtMostOnePublished ==
  \A a \in ActionKeys : \A v, w \in Published(a) : v = w

\* A row that an UPDATE in progress does not see is not published: it was
\* inserted as a draft after the snapshot, and no other publish has run since.
UnseenRowsNotPublished ==
  \A p \in Publishers :
    publisher[p].pc = "update" =>
      \A v \in VersionNos \ publisher[p].seen :
        rowStatus[publisher[p].action][v] # "published"

\* While a version stays published its code does not change: live code is
\* replaced only by way of a draft and a publish.
LiveCodeIsStable ==
  [][\A a \in ActionKeys, v \in VersionNos :
       rowStatus[a][v] = "published" /\ rowStatus'[a][v] = "published"
         => rowCode'[a][v] = rowCode[a][v]]_policyVars

\* An action that has a published policy is left without one, and so falls
\* back to Evaluate's default allow, for two causes only: its published
\* version is rewritten by a create, or a publish names a version that its
\* snapshot does not hold.
PolicyLossCauses ==
  [][\A a \in ActionKeys :
       Published(a) # {} /\ Published(a)' = {} =>
         \/ \E p \in Creators :
              /\ creator[p].pc = "upsert" /\ creator[p].action = a
              /\ creator[p].version \in Published(a)
              /\ creator'[p].pc = "idle"
         \/ \E p \in Publishers :
              /\ publisher[p].pc = "update" /\ publisher[p].action = a
              /\ publisher[p].version \notin publisher[p].seen
              /\ publisher'[p].pc = "idle"]_policyVars

\* Once a publish of a row it saw answers ok, Evaluate loads that version and
\* its code, whatever its number.  getActivePolicy reports it too, unless its
\* number is 0: such a policy governs, and the answer is that there is none.
PublishOkIsActive ==
  [][\A p \in Publishers, a \in ActionKeys :
       LET v == publisher[p].version IN
       /\ publisher[p].pc = "update" /\ publisher[p].action = a
       /\ v \in publisher[p].seen
       /\ publisher'[p] = Idle("ok")
       => /\ LoadPublished(a)' = [ver |-> v, mod |-> rowCode'[a][v]]
          /\ ActivePolicy(a)' =
               IF v = 0 THEN NoActivePolicy
                        ELSE [version |-> v, status |-> "published",
                              code |-> rowCode'[a][v]]]_policyVars
=============================================================================
