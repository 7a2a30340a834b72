------------------------ MODULE PolicyVersionsProofs ------------------------
(***************************************************************************)
(* Proofs about PolicyVersions, for any set of actions, codes, version     *)
(* numbers and concurrent requests, and any table the handlers start on.   *)
(***************************************************************************)
EXTENDS PolicyVersions, WellFoundedInduction, TLAPS

\* A lost reply is one of the replies.
LEMMA ToldTyped == \A reply \in Replies : Told(reply) \subseteq Replies
  BY DEF Told, Replies

\* Every step of every handler keeps the table and the requests well typed.
LEMMA PolicyTypeStep == PolicyTypeOK /\ [PolicyNext]_policyVars => PolicyTypeOK'
<1> SUFFICES ASSUME PolicyTypeOK, [PolicyNext]_policyVars PROVE PolicyTypeOK'
  OBVIOUS
<1> USE PolicyVersionsAssumption DEF PolicyTypeOK, Idle, IdleStates, Replies
<1>1. ASSUME NEW p \in Creators, NEW a \in ActionKeys, NEW c \in Codes,
             NEW v, BeginUpsert(p, a, c, v)
      PROVE  PolicyTypeOK'
  BY <1>1 DEF BeginUpsert, CreateStates
<1>2. ASSUME NEW p \in Creators, CreateNext(p) PROVE PolicyTypeOK'
  <2>1. CASE \E a \in ActionKeys, c \in Codes, v \in VersionNos : CreateExplicit(p, a, c, v)
    BY <2>1, <1>1 DEF CreateExplicit
  <2>2. CASE \E a \in ActionKeys, c \in Codes : CreateNumbered(p, a, c)
    BY <2>2, <1>1 DEF CreateNumbered
  <2>3. CASE \E a \in ActionKeys, c \in Codes : CreateNumberedReadFails(p, a, c)
    BY <2>3, <1>1 DEF CreateNumberedReadFails
  <2>4. CASE Upsert(p)
    <3>1. creator[p] \in CreateStates
      BY <2>4 DEF Upsert
    <3>2. PICK r \in CreateStates : r = creator[p]
      BY <3>1
    <3>3. /\ rowStatus' = [rowStatus EXCEPT ![r.action][r.version] = "draft"]
          /\ rowCode' = [rowCode EXCEPT ![r.action][r.version] = r.code]
          /\ publisher' = publisher
      BY <2>4, <3>2 DEF Upsert, UpsertedStatus
    <3>5. PICK reply \in Replies : creator' = [creator EXCEPT ![p] = Idle(reply)]
      BY <2>4, ToldTyped DEF Upsert
    <3>4. r.action \in ActionKeys /\ r.version \in VersionNos /\ r.code \in Codes
      BY DEF CreateStates
    <3> QED BY <3>3, <3>4, <3>5 DEF Statuses
  <2>5. CASE UpsertFails(p)
    BY <2>5 DEF UpsertFails
  <2> QED BY <1>2, <2>1, <2>2, <2>3, <2>4, <2>5 DEF CreateNext
<1>3. ASSUME NEW p \in Publishers, PublishNext(p) PROVE PolicyTypeOK'
  <2>1. CASE \E a \in ActionKeys, v \in VersionNos : PublishStart(p, a, v)
    <3>1. PICK a \in ActionKeys, v \in VersionNos : PublishStart(p, a, v)
      BY <2>1
    <3>2. Existing(a) \in SUBSET VersionNos
      BY DEF Existing
    <3> QED BY <3>1, <3>2 DEF PublishStart, UpdateStates
  <2>2. CASE PublishCommit(p)
    <3>1. PICK reply \in Replies : publisher' = [publisher EXCEPT ![p] = Idle(reply)]
      <4>1. (IF publisher[p].seen = {} THEN "not found" ELSE "ok") \in Replies
        OBVIOUS
      <4> QED BY <2>2, <4>1, ToldTyped DEF PublishCommit
    <3> QED BY <2>2, <3>1 DEF PublishCommit, StatusAfterPublish, UpdateStates, Statuses
  <2>3. CASE PublishFails(p)
    BY <2>3 DEF PublishFails
  <2> QED BY <1>3, <2>1, <2>2, <2>3 DEF PublishNext
<1>4. CASE UNCHANGED policyVars
  BY <1>4 DEF policyVars
<1> QED BY <1>2, <1>3, <1>4 DEF PolicyNext

\* The handlers run, on whatever table they find.  What is proved of it holds
\* of the handlers on their own and beside the other services.
HandlersRun == PolicyTypeOK /\ [][PolicyNext]_policyVars

\* They keep the table well typed.
LEMMA TypeKept == HandlersRun => []PolicyTypeOK
  BY PolicyTypeStep, PTL DEF HandlersRun

\* On their own they start with an empty table.
LEMMA AloneHandlersRun == PolicySpec => HandlersRun
<1>1. PolicyInit => PolicyTypeOK
  BY DEF PolicyInit, PolicyTypeOK, Statuses, Idle, IdleStates, Replies
<1> QED BY <1>1, PTL DEF PolicySpec, HandlersRun

\* The table and the requests stay well typed.
THEOREM PolicyTypeCorrect == PolicySpec => []PolicyTypeOK
  BY TypeKept, AloneHandlersRun, PTL

\* The upsert is the only statement that writes code, and it makes the row a
\* draft.
LEMMA LiveCodeKept == HandlersRun => LiveCodeIsStable
<1> DEFINE Stable == \A a \in ActionKeys, v \in VersionNos :
                       rowStatus[a][v] = "published" /\ rowStatus'[a][v] = "published"
                         => rowCode'[a][v] = rowCode[a][v]
<1>1. PolicyTypeOK /\ [PolicyNext]_policyVars => [Stable]_policyVars
  <2> SUFFICES ASSUME PolicyTypeOK, PolicyNext,
                      NEW a \in ActionKeys, NEW v \in VersionNos,
                      rowStatus'[a][v] = "published"
               PROVE  rowCode'[a][v] = rowCode[a][v]
    BY DEF policyVars
  <2>1. CASE rowCode' = rowCode
    BY <2>1
  <2>2. CASE \E p \in Creators : Upsert(p)
    <3>1. PICK p \in Creators : Upsert(p)
      BY <2>2
    <3>2. PICK r \in CreateStates : r = creator[p]
      BY <3>1 DEF Upsert, PolicyTypeOK, IdleStates
    <3>3. /\ rowStatus' = [rowStatus EXCEPT ![r.action][r.version] = "draft"]
          /\ rowCode' = [rowCode EXCEPT ![r.action][r.version] = r.code]
      BY <3>1, <3>2 DEF Upsert, UpsertedStatus
    <3>4. r.action \in ActionKeys /\ r.version \in VersionNos
      BY DEF CreateStates
    <3>5. r.action # a \/ r.version # v
      BY <3>3, <3>4 DEF PolicyTypeOK
    <3> QED BY <3>3, <3>4, <3>5 DEF PolicyTypeOK
  <2> QED BY <2>1, <2>2 DEF PolicyNext, CreateNext, PublishNext, CreateExplicit,
            CreateNumbered, CreateNumberedReadFails, BeginUpsert, UpsertFails,
            PublishStart, PublishCommit, PublishFails
<1>2. HandlersRun => [][Stable]_policyVars
  BY <1>1, TypeKept, PTL DEF HandlersRun
<1> QED BY <1>2 DEF LiveCodeIsStable

\* No step rewrites the code of a version and leaves it published
\* (createPolicyVersion, publishPolicyVersion), with any overlap.
THEOREM LiveCodeStable == PolicySpec => LiveCodeIsStable
  BY LiveCodeKept, AloneHandlersRun, PTL

-----------------------------------------------------------------------------
(* Publishes that do not overlap *)

\* No two publish requests are under way for one action; those for different
\* actions may overlap.
PublishesApart ==
  \A p, q \in Publishers :
    /\ publisher[p].pc = "update" /\ publisher[q].pc = "update"
    /\ publisher[p].action = publisher[q].action
    => p = q

\* As long as publishes are apart, what one has not seen is not published.
PublishInv == AtMostOnePublished /\ UnseenRowsNotPublished

\* A create never publishes a row, so it keeps PublishInv.
LEMMA UpsertKeepsPublishInv ==
  ASSUME PolicyTypeOK, PublishInv, NEW p \in Creators, Upsert(p)
  PROVE  PublishInv'
<1>1. PICK r \in CreateStates : r = creator[p]
  BY DEF Upsert, PolicyTypeOK, IdleStates
<1>2. /\ rowStatus' = [rowStatus EXCEPT ![r.action][r.version] = "draft"]
      /\ publisher' = publisher
  BY <1>1 DEF Upsert, UpsertedStatus
<1>3. r.action \in ActionKeys /\ r.version \in VersionNos
  BY DEF CreateStates
<1>4. \A a \in ActionKeys : \A v \in VersionNos :
        rowStatus'[a][v] = "published" => rowStatus[a][v] = "published"
  BY <1>2, <1>3 DEF PolicyTypeOK
<1>5. \A q \in Publishers : publisher[q].pc = "update" => publisher[q].action \in ActionKeys
  BY DEF PolicyTypeOK, IdleStates, UpdateStates
<1> QED BY <1>2, <1>4, <1>5 DEF PublishInv, AtMostOnePublished, UnseenRowsNotPublished, Published

\* The committing UPDATE archives every row it saw but one, and no row it did
\* not see is published.
LEMMA PublishCommitKeepsPublishInv ==
  ASSUME PublishesApart, PolicyTypeOK, PublishInv, NEW p \in Publishers, PublishCommit(p)
  PROVE  PublishInv'
<1>1. PICK r \in UpdateStates : r = publisher[p]
  BY DEF PublishCommit, PolicyTypeOK, IdleStates
<1>2. /\ r.action \in ActionKeys /\ r.version \in VersionNos
      /\ r.seen \in SUBSET VersionNos /\ r.pc = "update"
  BY DEF UpdateStates
<1>3. \A v \in VersionNos :
        rowStatus'[r.action][v] = IF v \in r.seen
                                    THEN (IF v = r.version THEN "published" ELSE "archived")
                                    ELSE rowStatus[r.action][v]
  BY <1>1, <1>2 DEF PublishCommit, StatusAfterPublish, PolicyTypeOK
<1>4. \A a \in ActionKeys : a # r.action => rowStatus'[a] = rowStatus[a]
  BY <1>1, <1>2 DEF PublishCommit, PolicyTypeOK
<1>5. \A v \in VersionNos \ r.seen : rowStatus[r.action][v] # "published"
  BY <1>1, <1>2 DEF PublishInv, UnseenRowsNotPublished
<1>6. AtMostOnePublished'
  <2> SUFFICES ASSUME NEW a \in ActionKeys, NEW v \in VersionNos, NEW w \in VersionNos,
                      rowStatus'[a][v] = "published", rowStatus'[a][w] = "published"
               PROVE  v = w
    BY DEF AtMostOnePublished, Published
  <2>1. CASE a = r.action
    BY <2>1, <1>3, <1>5
  <2>2. CASE a # r.action
    BY <2>2, <1>4 DEF PublishInv, AtMostOnePublished, Published
  <2> QED BY <2>1, <2>2
<1>7. UnseenRowsNotPublished'
  <2>1. PICK reply : publisher' = [publisher EXCEPT ![p] = Idle(reply)]
    BY DEF PublishCommit
  <2>2. publisher'[p].pc = "idle" /\ \A q \in Publishers \ {p} : publisher'[q] = publisher[q]
    BY <2>1 DEF PolicyTypeOK, Idle
  <2>3. ASSUME NEW q \in Publishers \ {p}, publisher[q].pc = "update"
        PROVE  publisher[q].action \in ActionKeys /\ publisher[q].action # r.action
    <3>1. publisher[q].action \in ActionKeys
      BY <2>3 DEF PolicyTypeOK, IdleStates, UpdateStates
    <3> QED BY <1>1, <1>2, <2>3, <3>1 DEF PublishesApart
  <2> QED BY <1>4, <2>2, <2>3 DEF PublishInv, UnseenRowsNotPublished
<1> QED BY <1>6, <1>7 DEF PublishInv

\* Every step of publishers that are apart and of any creates keeps PublishInv.
LEMMA PublishInvStep ==
  ASSUME PublishesApart, PolicyTypeOK, PublishInv, [PolicyNext]_policyVars
  PROVE  PublishInv'
<1>1. CASE UNCHANGED <<rowStatus, publisher>>
  BY <1>1 DEF PublishInv, AtMostOnePublished, UnseenRowsNotPublished, Published
<1>2. ASSUME NEW p \in Publishers, NEW a \in ActionKeys, NEW v \in VersionNos,
             PublishStart(p, a, v)
      PROVE  PublishInv'
  <2>1. rowStatus' = rowStatus /\ publisher'[p].seen = Existing(a)
        /\ publisher'[p].action = a
    BY <1>2 DEF PublishStart, PolicyTypeOK
  <2>2. \A q \in Publishers \ {p} : publisher'[q] = publisher[q]
    BY <1>2 DEF PublishStart, PolicyTypeOK
  <2> QED BY <2>1, <2>2 DEF PublishInv, AtMostOnePublished, UnseenRowsNotPublished,
            Published, Existing
<1>3. ASSUME NEW p \in Publishers, PublishFails(p) PROVE PublishInv'
  <2>1. rowStatus' = rowStatus /\ publisher'[p].pc = "idle"
    BY <1>3 DEF PublishFails, PolicyTypeOK, Idle
  <2>2. \A q \in Publishers \ {p} : publisher'[q] = publisher[q]
    BY <1>3 DEF PublishFails, PolicyTypeOK
  <2> QED BY <2>1, <2>2 DEF PublishInv, AtMostOnePublished, UnseenRowsNotPublished, Published
<1>4. ASSUME NEW p \in Publishers, PublishCommit(p) PROVE PublishInv'
  BY <1>4, PublishCommitKeepsPublishInv
<1>5. ASSUME NEW p \in Creators, Upsert(p) PROVE PublishInv'
  BY <1>5, UpsertKeepsPublishInv
<1> QED BY <1>1, <1>2, <1>3, <1>4, <1>5 DEF PolicyNext, CreateNext, PublishNext,
          CreateExplicit, CreateNumbered, CreateNumberedReadFails, BeginUpsert,
          UpsertFails, policyVars

\* The table and the requests satisfy it throughout.
LEMMA PublishInvariant ==
  HandlersRun /\ PublishInv /\ []PublishesApart => [](PolicyTypeOK /\ PublishInv)
<1>1. PublishesApart /\ PolicyTypeOK /\ PublishInv /\ [PolicyNext]_policyVars => PublishInv'
  BY PublishInvStep
<1> QED BY <1>1, TypeKept, PTL DEF HandlersRun

\* An empty table has nothing published.
LEMMA AlonePublishInv == PolicySpec => PublishInv
<1>1. PolicyInit => PublishInv
  BY DEF PolicyInit, PublishInv, AtMostOnePublished, UnseenRowsNotPublished, Published, Idle
<1> QED BY <1>1, PTL DEF PolicySpec

\* As long as no two publish requests for one action overlap, it never has two
\* published versions, whatever creates and other publishes run beside them.
THEOREM SerialPublishesSafe == PolicySpec /\ []PublishesApart => []AtMostOnePublished
<1>1. PublishInv => AtMostOnePublished
  BY DEF PublishInv
<1> QED BY <1>1, PublishInvariant, AlonePublishInv, AloneHandlersRun, PTL

\* Nor does an UPDATE in progress ever miss a row that is published: the rows
\* its snapshot does not hold were inserted since, as drafts.
THEOREM SnapshotHoldsPublished == PolicySpec /\ []PublishesApart => []UnseenRowsNotPublished
<1>1. PublishInv => UnseenRowsNotPublished
  BY DEF PublishInv
<1> QED BY <1>1, PublishInvariant, AlonePublishInv, AloneHandlersRun, PTL

-----------------------------------------------------------------------------
(* What a publish that is answered ok promises *)

\* The highest of one version is that version.
LEMMA MaxOfOne == \A v \in Int : Max({v}) = v
<1> SUFFICES ASSUME NEW v \in Int PROVE Max({v}) = v
  OBVIOUS
<1>1. \E x \in {v} : \A y \in {v} : x >= y
  OBVIOUS
<1> QED BY <1>1, Zenon DEF Max

\* The UPDATE archives all other rows it saw, and those it did not see are not
\* published.
LEMMA PublishedIsLoaded ==
  HandlersRun /\ PublishInv /\ []PublishesApart => PublishOkIsActive
<1> DEFINE Answers(a, v) ==
             IF v = 0 THEN NoActivePolicy
                      ELSE [version |-> v, status |-> "published", code |-> rowCode'[a][v]]
           Active == \A p \in Publishers, a \in ActionKeys :
             LET v == publisher[p].version IN
             /\ publisher[p].pc = "update" /\ publisher[p].action = a
             /\ v \in publisher[p].seen
             /\ publisher'[p] = Idle("ok")
             => /\ LoadPublished(a)' = [ver |-> v, mod |-> rowCode'[a][v]]
                /\ ActivePolicy(a)' = Answers(a, v)
<1>1. PolicyTypeOK /\ PublishInv /\ [PolicyNext]_policyVars => [Active]_policyVars
  <2> SUFFICES ASSUME PolicyTypeOK, PublishInv, PolicyNext,
                      NEW p \in Publishers, NEW a \in ActionKeys,
                      publisher[p].pc = "update", publisher[p].action = a,
                      publisher[p].version \in publisher[p].seen,
                      publisher'[p] = Idle("ok")
               PROVE  LET v == publisher[p].version IN
                      /\ LoadPublished(a)' = [ver |-> v, mod |-> rowCode'[a][v]]
                      /\ ActivePolicy(a)' = Answers(a, v)
    BY DEF policyVars
  <2>1. PICK r \in UpdateStates : r = publisher[p]
    BY DEF PolicyTypeOK, IdleStates
  <2>2. publisher'[p] # publisher[p] /\ publisher'[p].reply # "db error"
    BY DEF Idle
  <2>3. PublishCommit(p)
    <3>2. ~PublishFails(p)
      <4> SUFFICES ASSUME PublishFails(p) PROVE FALSE
        OBVIOUS
      <4>1. publisher'[p] = Idle("db error")
        BY DEF PublishFails, PolicyTypeOK
      <4>2. Idle("db error").reply = "db error"
        BY DEF Idle
      <4> QED BY <2>2, <4>1, <4>2
    <3>3. \A b, v : ~PublishStart(p, b, v)
      BY DEF PublishStart
    <3>4. PICK q \in Publishers : PublishNext(q)
      BY <2>2 DEF PolicyNext, CreateNext, CreateExplicit,
              CreateNumbered, CreateNumberedReadFails, BeginUpsert, Upsert, UpsertFails
    <3>5. PICK x : publisher' = [publisher EXCEPT ![q] = x]
      BY <3>4 DEF PublishNext, PublishStart, PublishCommit, PublishFails
    <3>6. q = p
      BY <2>2, <3>5 DEF PolicyTypeOK
    <3> QED BY <3>2, <3>3, <3>4, <3>6 DEF PublishNext
  <2>4. r.version \in VersionNos /\ r.seen \in SUBSET VersionNos /\ r.version \in Int
    BY PolicyVersionsAssumption DEF UpdateStates
  <2>5. \A v \in VersionNos :
          rowStatus'[a][v] = IF v \in r.seen
                               THEN (IF v = r.version THEN "published" ELSE "archived")
                               ELSE rowStatus[a][v]
    BY <2>1, <2>3, <2>4 DEF PublishCommit, StatusAfterPublish, PolicyTypeOK
  <2>6. \A v \in VersionNos \ r.seen : rowStatus[a][v] # "published"
    BY <2>1 DEF PublishInv, UnseenRowsNotPublished
  <2>7. Published(a)' = {r.version}
    BY <2>1, <2>4, <2>5, <2>6 DEF Published
  <2>8. Max(Published(a)') = r.version
    BY <2>4, <2>7, MaxOfOne
  <2>9. LoadPublished(a)' = [ver |-> r.version, mod |-> rowCode'[a][r.version]]
    BY <2>7, <2>8 DEF LoadPublished
  <2> QED BY <2>1, <2>9 DEF ActivePolicy
<1>2. HandlersRun /\ PublishInv /\ []PublishesApart => [][Active]_policyVars
  BY <1>1, PublishInvariant, PTL DEF HandlersRun
<1> QED BY <1>2 DEF PublishOkIsActive

\* After publishPolicyVersion answers ok for a version its UPDATE saw, Evaluate
\* loads that version and its code, and getActivePolicy answers it unless its
\* number is 0, whatever creates run beside it.
THEOREM PublishTakesEffect == PolicySpec /\ []PublishesApart => PublishOkIsActive
  BY PublishedIsLoaded, AlonePublishInv, AloneHandlersRun, PTL

-----------------------------------------------------------------------------
(* How an action loses its policy *)

\* Only the two statements that write a status take one back.
LEMMA LossCaused == HandlersRun => PolicyLossCauses
<1> DEFINE Rewritten(a) == \E p \in Creators :
              /\ creator[p].pc = "upsert" /\ creator[p].action = a
              /\ creator[p].version \in Published(a)
              /\ creator'[p].pc = "idle"
           Misnamed(a) == \E p \in Publishers :
              /\ publisher[p].pc = "update" /\ publisher[p].action = a
              /\ publisher[p].version \notin publisher[p].seen
              /\ publisher'[p].pc = "idle"
           Caused == \A a \in ActionKeys :
              Published(a) # {} /\ Published(a)' = {} =>
                \/ \E p \in Creators :
                     /\ creator[p].pc = "upsert" /\ creator[p].action = a
                     /\ creator[p].version \in Published(a)
                     /\ creator'[p].pc = "idle"
                \/ \E p \in Publishers :
                     /\ publisher[p].pc = "update" /\ publisher[p].action = a
                     /\ publisher[p].version \notin publisher[p].seen
                     /\ publisher'[p].pc = "idle"
<1>1. PolicyTypeOK /\ [PolicyNext]_policyVars => [Caused]_policyVars
  <2> SUFFICES ASSUME PolicyTypeOK, PolicyNext, NEW a \in ActionKeys,
                      Published(a) # {}, Published(a)' = {}
               PROVE  Rewritten(a) \/ Misnamed(a)
    BY DEF policyVars
  <2>1. PICK w \in VersionNos : rowStatus[a][w] = "published"
    BY DEF Published
  <2>2. \A v \in VersionNos : rowStatus'[a][v] # "published"
    BY DEF Published
  <2>3. rowStatus' # rowStatus
    BY <2>1, <2>2
  <2>4. ASSUME NEW p \in Creators, Upsert(p) PROVE Rewritten(a)
    <3>1. PICK r \in CreateStates : r = creator[p]
      BY <2>4 DEF Upsert, PolicyTypeOK, IdleStates
    <3>2. r.action \in ActionKeys /\ r.version \in VersionNos /\ r.pc = "upsert"
      BY DEF CreateStates
    <3>3. rowStatus' = [rowStatus EXCEPT ![r.action][r.version] = "draft"]
      BY <2>4, <3>1 DEF Upsert, UpsertedStatus
    <3>4. r.action = a /\ r.version = w
      BY <2>1, <2>2, <3>2, <3>3 DEF PolicyTypeOK
    <3>5. creator'[p].pc = "idle"
      <4>1. PICK reply : creator' = [creator EXCEPT ![p] = Idle(reply)]
        BY <2>4 DEF Upsert
      <4> QED BY <4>1 DEF PolicyTypeOK, Idle
    <3> QED BY <2>1, <3>1, <3>2, <3>4, <3>5 DEF Published
  <2>5. ASSUME NEW p \in Publishers, PublishCommit(p) PROVE Misnamed(a)
    <3>1. PICK r \in UpdateStates : r = publisher[p]
      BY <2>5 DEF PublishCommit, PolicyTypeOK, IdleStates
    <3>2. /\ r.action \in ActionKeys /\ r.version \in VersionNos
          /\ r.seen \in SUBSET VersionNos /\ r.pc = "update"
      BY DEF UpdateStates
    <3>3. \A v \in VersionNos :
            rowStatus'[r.action][v] = IF v \in r.seen
                                        THEN (IF v = r.version THEN "published" ELSE "archived")
                                        ELSE rowStatus[r.action][v]
      BY <2>5, <3>1, <3>2 DEF PublishCommit, StatusAfterPublish, PolicyTypeOK
    <3>4. r.action = a
      BY <2>1, <2>2, <2>5, <3>1, <3>2 DEF PublishCommit, PolicyTypeOK
    <3>5. r.version \notin r.seen
      BY <2>2, <3>2, <3>3, <3>4
    <3>6. publisher'[p].pc = "idle"
      <4>1. PICK reply : publisher' = [publisher EXCEPT ![p] = Idle(reply)]
        BY <2>5 DEF PublishCommit
      <4> QED BY <4>1 DEF PolicyTypeOK, Idle
    <3> QED BY <3>1, <3>2, <3>4, <3>5, <3>6
  <2> QED BY <2>3, <2>4, <2>5 DEF PolicyNext, CreateNext, PublishNext, CreateExplicit,
            CreateNumbered, CreateNumberedReadFails, BeginUpsert, UpsertFails,
            PublishStart, PublishFails
<1>2. HandlersRun => [][Caused]_policyVars
  BY <1>1, TypeKept, PTL DEF HandlersRun
<1> QED BY <1>2 DEF PolicyLossCauses

\* Whatever overlaps, an action that has a published policy is left without one
\* only by a create that rewrites the published version or by a publish of a
\* version that is not in its snapshot.
THEOREM LossHasCause == PolicySpec => PolicyLossCauses
  BY LossCaused, AloneHandlersRun, PTL

-----------------------------------------------------------------------------
(* What Evaluate loads *)

\* A row that exists has code, and an UPDATE in progress touches only rows that
\* exist.
CodeInv ==
  /\ \A a \in ActionKeys : \A v \in Existing(a) : rowCode[a][v] \in Codes
  /\ \A p \in Publishers :
       publisher[p].pc = "update" => publisher[p].seen \subseteq Existing(publisher[p].action)

\* Rows are never deleted, and the statement that inserts them brings code.
LEMMA CodeInvStep ==
  ASSUME PolicyTypeOK, CodeInv, [PolicyNext]_policyVars
  PROVE  CodeInv'
<1>1. CASE UNCHANGED <<rowStatus, rowCode, publisher>>
  BY <1>1 DEF CodeInv, Existing
<1>2. ASSUME NEW p \in Publishers, NEW a \in ActionKeys, NEW v \in VersionNos,
             PublishStart(p, a, v)
      PROVE  CodeInv'
  <2>1. /\ rowStatus' = rowStatus /\ rowCode' = rowCode
        /\ publisher'[p].seen = Existing(a) /\ publisher'[p].action = a
        /\ \A q \in Publishers \ {p} : publisher'[q] = publisher[q]
    BY <1>2 DEF PublishStart, PolicyTypeOK
  <2> QED BY <2>1 DEF CodeInv, Existing
<1>3. ASSUME NEW p \in Publishers, PublishFails(p) PROVE CodeInv'
  <2>1. /\ rowStatus' = rowStatus /\ rowCode' = rowCode /\ publisher'[p].pc = "idle"
        /\ \A q \in Publishers \ {p} : publisher'[q] = publisher[q]
    BY <1>3 DEF PublishFails, PolicyTypeOK, Idle
  <2> QED BY <2>1 DEF CodeInv, Existing
<1>4. ASSUME NEW p \in Publishers, PublishCommit(p) PROVE CodeInv'
  <2>1. PICK r \in UpdateStates : r = publisher[p]
    BY <1>4 DEF PublishCommit, PolicyTypeOK, IdleStates
  <2>2. /\ r.action \in ActionKeys /\ r.version \in VersionNos
        /\ r.seen \in SUBSET VersionNos /\ r.pc = "update"
    BY DEF UpdateStates
  <2>3. \A v \in VersionNos :
          rowStatus'[r.action][v] = IF v \in r.seen
                                      THEN (IF v = r.version THEN "published" ELSE "archived")
                                      ELSE rowStatus[r.action][v]
    BY <1>4, <2>1, <2>2 DEF PublishCommit, StatusAfterPublish, PolicyTypeOK
  <2>4. \A a \in ActionKeys : a # r.action => rowStatus'[a] = rowStatus[a]
    BY <1>4, <2>1, <2>2 DEF PublishCommit, PolicyTypeOK
  <2>5. r.seen \subseteq Existing(r.action)
    BY <2>1, <2>2 DEF CodeInv
  <2>6. \A a \in ActionKeys : Existing(a)' = Existing(a)
    <3>1. Existing(r.action)' = Existing(r.action)
      BY <2>2, <2>3, <2>5 DEF Existing
    <3>2. \A a \in ActionKeys : a # r.action => Existing(a)' = Existing(a)
      BY <2>4 DEF Existing
    <3> QED BY <3>1, <3>2
  <2>7. rowCode' = rowCode
    BY <1>4 DEF PublishCommit
  <2>8. publisher'[p].pc = "idle" /\ \A q \in Publishers \ {p} : publisher'[q] = publisher[q]
    <3>1. PICK reply : publisher' = [publisher EXCEPT ![p] = Idle(reply)]
      BY <1>4 DEF PublishCommit
    <3> QED BY <3>1 DEF PolicyTypeOK, Idle
  <2>9. \A q \in Publishers : publisher[q].pc = "update" => publisher[q].action \in ActionKeys
    BY DEF PolicyTypeOK, IdleStates, UpdateStates
  <2> QED BY <2>6, <2>7, <2>8, <2>9 DEF CodeInv
<1>5. ASSUME NEW p \in Creators, Upsert(p) PROVE CodeInv'
  <2>1. PICK r \in CreateStates : r = creator[p]
    BY <1>5 DEF Upsert, PolicyTypeOK, IdleStates
  <2>2. r.action \in ActionKeys /\ r.version \in VersionNos /\ r.code \in Codes
    BY DEF CreateStates
  <2>3. /\ rowStatus' = [rowStatus EXCEPT ![r.action][r.version] = "draft"]
        /\ rowCode' = [rowCode EXCEPT ![r.action][r.version] = r.code]
        /\ publisher' = publisher
    BY <1>5, <2>1 DEF Upsert, UpsertedStatus
  <2>4. \A a \in ActionKeys, v \in VersionNos :
          /\ rowStatus'[a][v] = IF a = r.action /\ v = r.version THEN "draft" ELSE rowStatus[a][v]
          /\ rowCode'[a][v] = IF a = r.action /\ v = r.version THEN r.code ELSE rowCode[a][v]
    BY <2>2, <2>3 DEF PolicyTypeOK
  <2>5. \A q \in Publishers : publisher[q].pc = "update" => publisher[q].action \in ActionKeys
    BY DEF PolicyTypeOK, IdleStates, UpdateStates
  <2> QED BY <2>2, <2>3, <2>4, <2>5 DEF CodeInv, Existing
<1> QED BY <1>1, <1>2, <1>3, <1>4, <1>5 DEF PolicyNext, CreateNext, PublishNext,
          CreateExplicit, CreateNumbered, CreateNumberedReadFails, BeginUpsert,
          UpsertFails, policyVars

\* Version numbers, which an INT column bounds, have a highest one.
LEMMA HighestVersion ==
  ASSUME NEW S, S \subseteq VersionNos, S # {}
  PROVE  Max(S) \in S
<1>1. PICK max \in Int : \A v \in VersionNos : v \in Int /\ v <= max
  BY PolicyVersionsAssumption
<1> DEFINE T == {max - v : v \in S}
<1>2. T \subseteq Nat /\ T # {}
  BY <1>1
<1>3. PICK x \in T : \A y \in T : ~(<<y, x>> \in OpToRel(<, Nat))
  BY <1>2, NatLessThanWellFounded, WFMin
<1>4. PICK w \in S : x = max - w
  OBVIOUS
<1>5. \A v \in S : max - v \in T
  OBVIOUS
<1> HIDE DEF T
<1>6. \A y \in Nat : <<y, x>> \in OpToRel(<, Nat) <=> y < x
  BY <1>2, <1>3 DEF OpToRel
<1>7. \A y \in T : ~(y < x) /\ x \in Nat /\ y \in Nat
  BY <1>2, <1>3, <1>6, Zenon
<1>8. \A v \in S : ~(max - v < max - w)
  BY <1>4, <1>5, <1>7
<1>9. \A v \in S : w >= v
  BY <1>1, <1>4, <1>8
<1> QED BY <1>4, <1>9, Zenon DEF Max

\* Evaluate finds code exactly where a version is published.
LEMMA LoadedIsPublished ==
  ASSUME PolicyTypeOK, CodeInv, NEW a \in ActionKeys
  PROVE  LoadPublished(a).mod # NoCode <=> Published(a) # {}
<1>1. CASE Published(a) = {}
  BY <1>1 DEF LoadPublished
<1>2. CASE Published(a) # {}
  <2>1. Max(Published(a)) \in Published(a)
    BY <1>2, HighestVersion DEF Published
  <2>2. Published(a) \subseteq Existing(a)
    BY DEF Published, Existing
  <2>3. rowCode[a][Max(Published(a))] \in Codes
    BY <2>1, <2>2 DEF CodeInv
  <2>4. LoadPublished(a).mod = rowCode[a][Max(Published(a))]
    BY <1>2 DEF LoadPublished
  <2> QED BY <1>2, <2>3, <2>4, PolicyVersionsAssumption
<1> QED BY <1>1, <1>2
=============================================================================
