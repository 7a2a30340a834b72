------------------------ MODULE ConnectorTablesProofs ------------------------
(***************************************************************************)
(* Proofs about the connector tables: their constraints hold, builtin      *)
(* definitions stay as the seed wrote them, an advertised key is found     *)
(* again, and an update leaves the operations of its body; for any number  *)
(* of admins and of services that start, any bodies and any faults.        *)
(*                                                                         *)
(* BuiltinsIntact says nothing of the requests and the starts under way.   *)
(* Guarded says why a request that is going to write a definition may: its *)
(* definition is not builtin, or the check is still to come, or the read   *)
(* of builtin_kind failed; and BootInv which operations a start has        *)
(* inserted so far.  That an update replaces the operations of its         *)
(* definition needs which statements the update has left, and which of its *)
(* list it has written (ReplaceInv).                                       *)
(***************************************************************************)
EXTENDS ConnectorTables, SequenceTheorems, FiniteSetTheorems, WellFoundedInduction, TLAPS

\* The constraints of the two tables.
TableInv ==
  /\ IsSequence(defs)
  /\ \A d \in Definitions : DOMAIN defs[d] = DefColumns /\ defs[d].builtin \in BOOLEAN
  /\ \A d, e \in Definitions : defs[d].kind = defs[e].kind => d = e
  /\ lastOp \in Nat
  /\ \A o \in ops : /\ DOMAIN o = OpColumns
                    /\ o.def \in Definitions /\ o.id \in 1..lastOp
                    /\ IsSequence(o.path)
  /\ \A o1, o2 \in ops : o1.id = o2.id => o1 = o2

CountInv == calls \in 0..MaxRequests /\ boots \in 0..MaxBoots

\* An update that failed to read builtin_kind aside, builtin definitions keep
\* their kind.
KindInv == \A d \in Definitions \ blind : defs[d].builtin => defs[d].kind = Shopify

RequestFields == DOMAIN NoRequest("none")

\* Request r has a statement of that kind left.
Has(r, what) == \E i \in DOMAIN r.todo : r.todo[i].do \in what

\* The statements that a builtin definition is kept from.
Writes(r) == Has(r, {"update def", "delete ops"})

\* A definition that no check keeps a request from writing.
Writable(d) == d \in Definitions /\ (defs[d].builtin => d \in blind)

\* The check is passed, or still to come before the first write, or its read
\* failed.
Guarded(r) ==
  \/ Writable(r.def)
  \/ r.todo[1].do = "check builtin" /\ Len(r.todo) > 1 /\ r.todo[2].do = "update def"
  \/ r.todo[1].do = "update def" /\ ~r.read

\* A request has its fields, and writes an old definition only if guarded.
RequestOK(r) ==
  /\ DOMAIN r = RequestFields
  /\ IsSequence(r.todo)
  /\ r.def \in Definitions \cup {0}
  /\ \A i \in DOMAIN r.todo : r.todo[i].do = "insert op" => IsSequence(r.todo[i].path)
  /\ Writes(r) => r.def \in Definitions /\ Guarded(r) /\ ~Has(r, {"insert def"})

RequestInv == DOMAIN admin = Admins /\ \A p \in Admins : RequestOK(admin[p])

\* Definition d has the operation that the seed lists at i.
Present(d, i) == \E o \in ops : o.def = d /\ o.path = SeedOps[i].path

\* A builtin definition that no faulty read let through.
Builtin(d) == d \in Definitions \ blind /\ defs[d].builtin

\* A start without faults has inserted the operations that it is past.
BootOK(b) ==
  /\ DOMAIN b = {"pc", "def", "clean"}
  /\ b.def \in Definitions \cup {0}
  /\ b.clean /\ Builtin(b.def) => /\ b.pc \in {"op2", "up"} => Present(b.def, 1)
                                  /\ b.pc = "up" => Present(b.def, 2)

BootInv == DOMAIN boot = Seeders /\ \A s \in Seeders : BootOK(boot[s])

ConnectorInv == TableInv /\ CountInv /\ KindInv /\ RequestInv /\ BootInv
-----------------------------------------------------------------------------
(* Sequences *)

\* What is defined on 1..n is a sequence.
LEMMA SequenceOf ==
  ASSUME NEW n \in Nat, NEW f, f = [i \in 1..n |-> f[i]]
  PROVE  IsSequence(f) /\ Len(f) = n /\ DOMAIN f = 1..n
<1> DEFINE S == {f[i] : i \in DOMAIN f}
<1>1. f \in [1..n -> S]
  OBVIOUS
<1>2. f \in Seq(S)
  BY <1>1, SeqDef
<1> QED BY <1>1, <1>2, LenProperties DEF IsSequence

\* The parts of a sequence.
LEMMA SequenceParts ==
  ASSUME NEW s, IsSequence(s)
  PROVE  /\ Len(s) \in Nat /\ DOMAIN s = 1..Len(s)
         /\ s = [i \in 1..Len(s) |-> s[i]]
         /\ s = <<>> <=> Len(s) = 0
         /\ s # <<>> => Head(s) = s[1] /\ 1 \in DOMAIN s
<1> DEFINE S == {s[i] : i \in DOMAIN s}
<1>1. s \in Seq(S)
  BY DEF IsSequence
<1>2. Len(s) \in Nat /\ DOMAIN s = 1..Len(s) /\ s \in [1..Len(s) -> S]
  BY <1>1, LenProperties
<1>3. s = [i \in 1..Len(s) |-> s[i]]
  BY <1>2
<1>4. s = <<>> <=> Len(s) = 0
  BY <1>1, EmptySeq
<1>5. s # <<>> => Head(s) = s[1] /\ 1 \in DOMAIN s
  BY <1>1, <1>2, <1>4
<1> QED BY <1>2, <1>3, <1>4, <1>5

\* The rest of a sequence.
LEMMA RestParts ==
  ASSUME NEW s, IsSequence(s), s # <<>>
  PROVE  /\ IsSequence(Tail(s)) /\ Len(Tail(s)) = Len(s) - 1
         /\ \A i \in DOMAIN Tail(s) : i + 1 \in DOMAIN s /\ Tail(s)[i] = s[i + 1]
<1> DEFINE S == {s[i] : i \in DOMAIN s}
           t == Tail(s)
<1>1. s \in Seq(S)
  BY DEF IsSequence
<1>2. t \in Seq(S) /\ Len(t) = Len(s) - 1 /\ \A i \in 1..Len(t) : t[i] = s[i + 1]
  BY <1>1, HeadTailProperties
<1>3. Len(t) \in Nat /\ DOMAIN t = 1..Len(t) /\ t \in [1..Len(t) -> S]
  BY <1>2, LenProperties
<1>4. t = [i \in 1..Len(t) |-> t[i]]
  BY <1>3
<1>5. IsSequence(t)
  BY <1>3, <1>4, SequenceOf
<1>6. \A i \in DOMAIN t : i + 1 \in DOMAIN s
  BY <1>2, <1>3, SequenceParts
<1> QED BY <1>2, <1>3, <1>5, <1>6

\* u is s, and then t.
Joined(u, s, t) ==
  /\ IsSequence(u)
  /\ DOMAIN u = 1..(Len(s) + Len(t)) /\ Len(u) = Len(s) + Len(t)
  /\ \A i \in DOMAIN s : i \in DOMAIN u /\ u[i] = s[i]
  /\ \A i \in DOMAIN t : Len(s) + i \in DOMAIN u /\ u[Len(s) + i] = t[i]
  /\ \A i \in DOMAIN u : \/ i \in DOMAIN s
                         \/ i - Len(s) \in DOMAIN t /\ u[i] = t[i - Len(s)]

\* Two sequences put together.
LEMMA JoinParts ==
  ASSUME NEW s, NEW t, IsSequence(s), IsSequence(t)
  PROVE  Joined(s \o t, s, t)
<1> DEFINE u == s \o t
<1> DEFINE S == {s[i] : i \in DOMAIN s} \cup {t[i] : i \in DOMAIN t}
<1>1. s \in Seq(S) /\ t \in Seq(S)
  BY SeqMonotonic DEF IsSequence
<1>2. /\ Len(s) \in Nat /\ DOMAIN s = 1..Len(s)
      /\ Len(t) \in Nat /\ DOMAIN t = 1..Len(t)
  BY SequenceParts
<1>3. /\ u \in Seq(S) /\ Len(u) = Len(s) + Len(t)
      /\ \A i \in 1..Len(u) : u[i] = IF i <= Len(s) THEN s[i] ELSE t[i - Len(s)]
  BY <1>1, ConcatProperties
<1>4. DOMAIN u = 1..Len(u) /\ u \in [1..Len(u) -> S] /\ Len(u) \in Nat
  BY <1>3, LenProperties
<1>5. IsSequence(u)
  <2>1. u = [i \in 1..Len(u) |-> u[i]]
    BY <1>4
  <2> QED BY <1>4, <2>1, SequenceOf
<1> HIDE DEF u
<1>6. \A i \in DOMAIN s : i \in DOMAIN u /\ u[i] = s[i]
  BY <1>2, <1>3, <1>4
<1>7. \A i \in DOMAIN t : Len(s) + i \in DOMAIN u /\ u[Len(s) + i] = t[i]
  BY <1>2, <1>3, <1>4
<1>8. \A i \in DOMAIN u : i \in DOMAIN s \/ (i - Len(s) \in DOMAIN t /\ u[i] = t[i - Len(s)])
  BY <1>2, <1>3, <1>4
<1>9. Joined(u, s, t)
  BY <1>3, <1>4, <1>5, <1>6, <1>7, <1>8 DEF Joined
<1> QED BY <1>9 DEF u

\* A list of one statement.
LEMMA OneStatement ==
  ASSUME NEW x
  PROVE  IsSequence(<<x>>) /\ Len(<<x>>) = 1 /\ DOMAIN <<x>> = {1} /\ <<x>>[1] = x
<1>1. IsSequence(<<x>>)
  BY DEF IsSequence
<1> QED BY <1>1

\* A list of two.
LEMMA TwoStatements ==
  ASSUME NEW x, NEW y
  PROVE  IsSequence(<<x, y>>) /\ Len(<<x, y>>) > 1 /\ DOMAIN <<x, y>> = {1, 2}
         /\ <<x, y>>[1] = x /\ <<x, y>>[2] = y
<1>1. IsSequence(<<x, y>>)
  BY DEF IsSequence
<1>2. Len(<<x, y>>) = 2 /\ <<x, y>>[1] = x /\ <<x, y>>[2] = y
  OBVIOUS
<1>3. DOMAIN <<x, y>> = {1, 2}
  BY <1>1, <1>2, SequenceParts
<1> QED BY <1>1, <1>2, <1>3

\* What is put behind a list does not change its first two statements.
LEMMA JoinKeepsFirst ==
  ASSUME NEW s, NEW t, IsSequence(s), IsSequence(t), Len(s) > 1
  PROVE  IsSequence(s \o t) /\ Len(s \o t) > 1 /\ (s \o t)[1] = s[1] /\ (s \o t)[2] = s[2]
<1>1. Len(s) \in Nat /\ Len(t) \in Nat /\ DOMAIN s = 1..Len(s)
  BY SequenceParts
<1>2. 1 \in DOMAIN s /\ 2 \in DOMAIN s
  BY <1>1
<1> DEFINE u == s \o t
<1>0. Joined(u, s, t)
  BY JoinParts, Zenon
<1> HIDE DEF u
<1>3. IsSequence(u) /\ Len(u) = Len(s) + Len(t) /\ \A i \in DOMAIN s : u[i] = s[i]
  BY <1>0 DEF Joined
<1>4. IsSequence(u) /\ Len(u) > 1 /\ u[1] = s[1] /\ u[2] = s[2]
  BY <1>1, <1>2, <1>3
<1> QED BY <1>4 DEF u

\* The empty list.
LEMMA NoStatement == IsSequence(<<>>) /\ Len(<<>>) = 0 /\ DOMAIN <<>> = {}
<1>1. IsSequence(<<>>)
  BY DEF IsSequence
<1> QED BY <1>1, SequenceParts
-----------------------------------------------------------------------------
(* Requests *)

\* A list of statements of the given kinds.
Statements(t, kinds) ==
  /\ IsSequence(t)
  /\ \A i \in DOMAIN t : t[i].do \in kinds /\ (t[i].do = "insert op" => IsSequence(t[i].path))

\* Lists of statements can be put together.
LEMMA JoinStatements ==
  ASSUME NEW s, NEW t, NEW kinds, Statements(s, kinds), Statements(t, kinds)
  PROVE  Statements(s \o t, kinds)
<1> DEFINE u == s \o t
<1>1. Joined(u, s, t)
  BY JoinParts, Zenon DEF Statements
<1> HIDE DEF u
<1>2. /\ IsSequence(u)
      /\ \A i \in DOMAIN s : u[i] = s[i]
      /\ \A i \in DOMAIN u : i \in DOMAIN s \/ (i - Len(s) \in DOMAIN t /\ u[i] = t[i - Len(s)])
  BY <1>1 DEF Joined
<1>3. Statements(u, kinds)
  BY <1>2 DEF Statements
<1> QED BY <1>3 DEF u

\* One statement, or none.
LEMMA FewStatements ==
  ASSUME NEW kinds
  PROVE  /\ Statements(<<>>, kinds)
         /\ \A x : x.do \in kinds \ {"insert op"} => Statements(<<x>>, kinds)
  BY OneStatement, NoStatement DEF Statements

\* The inserts of a body's operations.
LEMMA InsertStatements ==
  ASSUME NEW b \in Bodies, NEW kinds, "insert op" \in kinds
  PROVE  Statements(Inserts(b.ops), kinds) /\ Len(Inserts(b.ops)) = Len(b.ops)
<1> DEFINE t == Inserts(b.ops)
<1>1. IsSequence(b.ops) /\ \A i \in DOMAIN b.ops : IsSequence(b.ops[i].path)
  BY BodiesAssumption
<1>2. Len(b.ops) \in Nat /\ DOMAIN b.ops = 1..Len(b.ops)
  BY <1>1, SequenceParts
<1>3. t = [i \in 1..Len(b.ops) |-> t[i]]
  BY <1>2 DEF Inserts
<1>4. \A i \in 1..Len(b.ops) : t[i].do = "insert op" /\ t[i].path = b.ops[i].path
  BY <1>2 DEF Inserts
<1> HIDE DEF t
<1>5. IsSequence(t) /\ DOMAIN t = 1..Len(b.ops) /\ Len(t) = Len(b.ops)
  BY <1>2, <1>3, SequenceOf
<1>6. Statements(t, kinds) /\ Len(t) = Len(b.ops)
  BY <1>1, <1>2, <1>4, <1>5 DEF Statements
<1> QED BY <1>6 DEF t

\* What createCustomConnector does writes no existing definition.
LEMMA CreateStatements ==
  ASSUME NEW b \in Bodies
  PROVE  Statements(CreateSteps(b), {"insert def", "insert op", "enable", "seed action"})
<1> DEFINE K == {"insert def", "insert op", "enable", "seed action"}
           s == <<[do |-> "insert def", body |-> b]>>
           a == IF DisplayOf(b) = Blank THEN <<>> ELSE <<SeedAction(DisplayOf(b))>>
           e == IF b.enabled = TRUE THEN <<Enable(TRUE, FALSE)>> \o a ELSE <<>>
<1>1. Statements(s, K)
  BY FewStatements
<1>2. Statements(Inserts(b.ops), K)
  BY InsertStatements
<1>3. Statements(a, K)
  BY FewStatements DEF SeedAction
<1>4. Statements(<<Enable(TRUE, FALSE)>>, K)
  BY FewStatements DEF Enable
<1> HIDE DEF a, K, s
<1>5. Statements(e, K)
  BY <1>3, <1>4, JoinStatements, FewStatements
<1> HIDE DEF e
<1>6. Statements((s \o Inserts(b.ops)) \o e, K)
  BY <1>1, <1>2, <1>5, JoinStatements
<1> QED BY <1>6 DEF CreateSteps, e, a, s, K

\* updateCustomConnector checks builtin_kind, updates the definition, and only
\* then touches the operations.
LEMMA UpdateStatements ==
  ASSUME NEW b \in Bodies
  PROVE  /\ Statements(UpdateSteps(b), {"check builtin", "update def", "enable", "seed action",
                                        "read display", "delete ops", "insert op"})
         /\ Len(UpdateSteps(b)) > 1
         /\ UpdateSteps(b)[1].do = "check builtin" /\ UpdateSteps(b)[2].do = "update def"
<1> DEFINE K == {"check builtin", "update def", "enable", "seed action", "read display",
                 "delete ops", "insert op"}
           c == Do("check builtin")
           w == [do |-> "update def", body |-> b]
           s == <<c, w>>
           e == IF b.enabled = Null THEN <<>> ELSE <<Enable(b.enabled, FALSE)>>
           a == IF b.enabled = TRUE THEN <<SeedStep(b)>> ELSE <<>>
           d == IF b.ops = <<>> THEN <<>> ELSE <<Do("delete ops")>> \o Inserts(b.ops)
<1>1. /\ IsSequence(s) /\ Len(s) > 1 /\ DOMAIN s = {1, 2}
      /\ s[1].do = "check builtin" /\ s[2].do = "update def"
  <2>1. c.do = "check builtin" /\ w.do = "update def"
    BY DEF Do
  <2> HIDE DEF c, w
  <2> QED BY <2>1, TwoStatements
<1>2. Statements(e, K)
  BY FewStatements DEF Enable
<1>3. SeedStep(b).do \in {"seed action", "read display"}
  BY DEF SeedStep, SeedAction, Do
<1>4. Statements(a, K)
  BY <1>3, FewStatements
<1>5. Statements(Inserts(b.ops), K) /\ Statements(<<Do("delete ops")>>, K)
  BY InsertStatements, FewStatements DEF Do
<1>6. Statements(d, K)
  <2> HIDE DEF K
  <2> QED BY <1>5, JoinStatements, FewStatements
<1> HIDE DEF c, w, s, e, a, d
<1>8. Statements(s, K)
  BY <1>1 DEF Statements
<1> HIDE DEF K
<1> DEFINE u == (s \o e) \o a
           t == u \o d
<1>9. Statements(s \o e, K) /\ Statements(u, K) /\ Statements(t, K)
  BY <1>2, <1>4, <1>6, <1>8, JoinStatements
<1>10. Len(t) > 1 /\ t[1] = s[1] /\ t[2] = s[2]
  <2>0. IsSequence(e) /\ IsSequence(a) /\ IsSequence(d)
    BY <1>2, <1>4, <1>6 DEF Statements
  <2>1. IsSequence(s \o e) /\ Len(s \o e) > 1 /\ (s \o e)[1] = s[1] /\ (s \o e)[2] = s[2]
    BY <1>1, <2>0, JoinKeepsFirst
  <2>2. IsSequence(u) /\ Len(u) > 1 /\ u[1] = s[1] /\ u[2] = s[2]
    <3> DEFINE v == s \o e
    <3> HIDE DEF v
    <3>1. IsSequence(v) /\ Len(v) > 1 /\ v[1] = s[1] /\ v[2] = s[2]
      BY <2>1 DEF v
    <3>2. IsSequence(v \o a) /\ Len(v \o a) > 1 /\ (v \o a)[1] = s[1] /\ (v \o a)[2] = s[2]
      BY <2>0, <3>1, JoinKeepsFirst
    <3> QED BY <3>2 DEF v
  <2> HIDE DEF u
  <2> QED BY <2>0, <2>2, JoinKeepsFirst
<1>11. UpdateSteps(b) = t
  BY DEF UpdateSteps, c, w, s, e, a, d
<1> HIDE DEF t
<1> QED BY <1>1, <1>9, <1>10, <1>11 DEF K
\* A request that has ended.
LEMMA EndedRequest ==
  ASSUME NEW x
  PROVE  /\ RequestOK(NoRequest(x))
         /\ \A c : RequestOK([NoRequest(x) EXCEPT !.clean = c])
<1>1. DOMAIN NoRequest(x) = RequestFields /\ NoRequest(x).todo = <<>> /\ NoRequest(x).def = 0
  BY DEF NoRequest, RequestFields
<1>2. \A r : DOMAIN r = RequestFields /\ r.todo = <<>> /\ r.def = 0 => RequestOK(r)
  BY NoStatement DEF RequestOK, Writes, Has
<1>3. ASSUME NEW c
      PROVE  LET r == [NoRequest(x) EXCEPT !.clean = c]
             IN  DOMAIN r = RequestFields /\ r.todo = <<>> /\ r.def = 0
  BY DEF NoRequest, RequestFields
<1> QED BY <1>1, <1>2, <1>3

\* A request that starts: whatever it is going to write, it checks first.
LEMMA NewRequest ==
  ASSUME NEW todo, NEW d \in ConnectorIds, NEW list, NEW kinds, Statements(todo, kinds),
         \/ kinds \cap {"update def", "delete ops"} = {}
         \/ /\ d \in Definitions /\ "insert def" \notin kinds
            /\ todo[1].do = "check builtin" /\ Len(todo) > 1 /\ todo[2].do = "update def"
  PROVE  RequestOK([NoRequest("none") EXCEPT !.todo = todo, !.def = d, !.list = list])
<1> DEFINE r == [NoRequest("none") EXCEPT !.todo = todo, !.def = d, !.list = list]
<1>1. DOMAIN r = RequestFields /\ r.todo = todo /\ r.def = d
  BY DEF NoRequest, RequestFields
<1> HIDE DEF r
<1>2. RequestOK(r)
  BY <1>1 DEF RequestOK, Statements, Writes, Has, Guarded, ConnectorIds
<1> QED BY <1>2 DEF r

\* What a request q has left of r after its first statement.
Proceeded(q, r, first) ==
  /\ DOMAIN q = RequestFields
  /\ IsSequence(q.todo)
  /\ q.todo # <<>> => q.def = r.def /\ q.read = r.read
  /\ q.todo = <<>> => q.def = 0
  /\ \A i \in DOMAIN q.todo : \/ \E j \in DOMAIN first : q.todo[i] = first[j]
                              \/ \E j \in DOMAIN r.todo : q.todo[i] = r.todo[j]
  /\ first = <<>> /\ q.todo # <<>> => q.todo[1] = r.todo[2] /\ Len(r.todo) > 1

\* Proceed drops the first statement.
LEMMA ProceedParts ==
  ASSUME NEW r, DOMAIN r = RequestFields, IsSequence(r.todo), r.todo # <<>>,
         NEW first, IsSequence(first)
  PROVE  Proceeded(Proceed(r, first), r, first)
<1> DEFINE q == Proceed(r, first)
           t == Tail(r.todo)
           u == first \o t
<1>1. /\ IsSequence(t) /\ Len(t) = Len(r.todo) - 1
      /\ \A i \in DOMAIN t : i + 1 \in DOMAIN r.todo /\ t[i] = r.todo[i + 1]
  BY RestParts
<1>2. /\ IsSequence(u) /\ Len(u) = Len(first) + Len(t)
      /\ \A i \in DOMAIN first : u[i] = first[i]
      /\ \A i \in DOMAIN u : \/ i \in DOMAIN first
                             \/ i - Len(first) \in DOMAIN t /\ u[i] = t[i - Len(first)]
      /\ \A i \in DOMAIN t : u[Len(first) + i] = t[i]
  <2>1. IsSequence(t)
    BY <1>1
  <2> HIDE DEF t
  <2>2. Joined(u, first, t)
    BY <2>1, JoinParts, Zenon
  <2> HIDE DEF u
  <2> QED BY <2>2 DEF Joined
<1>3. q = IF u = <<>> THEN [NoRequest("ok") EXCEPT !.clean = r.clean] ELSE [r EXCEPT !.todo = u]
  BY DEF Proceed
<1> HIDE DEF q, u, t
<1>4. ASSUME u = <<>> PROVE Proceeded(q, r, first)
  <2>1. DOMAIN q = RequestFields /\ q.todo = <<>> /\ q.def = 0
    BY <1>3, <1>4 DEF NoRequest, RequestFields
  <2>2. IsSequence(q.todo) /\ DOMAIN q.todo = {}
    BY <2>1, NoStatement
  <2> QED BY <2>1, <2>2 DEF Proceeded
<1>5. ASSUME u # <<>> PROVE Proceeded(q, r, first)
  <2>1. {"todo", "def", "read"} \subseteq DOMAIN r
    BY DEF RequestFields, NoRequest
  <2>2. DOMAIN q = RequestFields /\ q.todo = u /\ q.def = r.def /\ q.read = r.read
    BY <1>3, <1>5, <2>1
  <2>3. \A i \in DOMAIN u : \/ \E j \in DOMAIN first : u[i] = first[j]
                            \/ \E j \in DOMAIN r.todo : u[i] = r.todo[j]
    BY <1>1, <1>2
  <2>4. ASSUME first = <<>> PROVE u[1] = r.todo[2] /\ Len(r.todo) > 1
    <3>1. /\ Len(u) \in Nat /\ Len(u) # 0
          /\ Len(first) = 0
          /\ Len(t) \in Nat /\ DOMAIN t = 1..Len(t)
          /\ Len(r.todo) \in Nat
      <4>1. Len(u) \in Nat /\ Len(u) # 0
        BY <1>2, <1>5, SequenceParts
      <4>2. Len(first) = 0
        BY <2>4, NoStatement
      <4>3. Len(t) \in Nat /\ DOMAIN t = 1..Len(t)
        BY <1>1, SequenceParts
      <4>4. Len(r.todo) \in Nat
        BY SequenceParts
      <4> QED BY <4>1, <4>2, <4>3, <4>4
    <3>2. Len(t) > 0
      BY <1>2, <3>1
    <3>3. 1 \in DOMAIN t
      BY <3>1, <3>2
    <3>4. u[1] = t[1] /\ t[1] = r.todo[2]
      BY <1>1, <1>2, <3>1, <3>3
    <3> QED BY <1>1, <3>1, <3>2, <3>4
  <2> QED BY <1>2, <1>5, <2>2, <2>3, <2>4 DEF Proceeded
<1>6. Proceeded(q, r, first)
  BY <1>4, <1>5
<1> QED BY <1>6 DEF q

\* A list of at most the insertion of an action.
SeedList(first) == first = <<>> \/ \E name : first = <<SeedAction(name)>>

\* Its statements.
LEMMA SeedListParts ==
  ASSUME NEW first, SeedList(first)
  PROVE  IsSequence(first) /\ \A j \in DOMAIN first : first[j].do = "seed action"
<1>1. CASE first = <<>>
  BY <1>1, NoStatement
<1>2. ASSUME NEW name, first = <<SeedAction(name)>>
      PROVE  IsSequence(first) /\ \A j \in DOMAIN first : first[j].do = "seed action"
  <2> DEFINE x == SeedAction(name)
  <2>1. x.do = "seed action"
    BY DEF SeedAction
  <2>2. first = <<x>>
    BY <1>2
  <2> HIDE DEF x
  <2>3. IsSequence(<<x>>) /\ DOMAIN <<x>> = {1} /\ <<x>>[1] = x
    BY OneStatement, Zenon
  <2> QED BY <2>1, <2>2, <2>3
<1> QED BY <1>1, <1>2 DEF SeedList

\* q has nothing to do that r has not, but for the insertion of an action.
LessToDo(q, r) ==
  /\ DOMAIN q = RequestFields /\ IsSequence(q.todo)
  /\ q.def \in {r.def, 0}
  /\ \A i \in DOMAIN q.todo : q.todo[i].do = "insert op" => IsSequence(q.todo[i].path)
  /\ Writes(q) => Writes(r) /\ q.def = r.def
  /\ Has(q, {"insert def"}) => Has(r, {"insert def"})

\* A request that goes on has less to do.
LEMMA LessAndLess ==
  ASSUME NEW r, RequestOK(r), r.todo # <<>>, NEW first, SeedList(first)
  PROVE  LessToDo(Proceed(r, first), r)
<1> DEFINE q == Proceed(r, first)
<1>1. IsSequence(first) /\ \A j \in DOMAIN first : first[j].do = "seed action"
  BY SeedListParts
<1>2. /\ DOMAIN q = RequestFields
      /\ IsSequence(q.todo)
      /\ q.todo # <<>> => q.def = r.def
      /\ q.todo = <<>> => q.def = 0
      /\ \A i \in DOMAIN q.todo : \/ \E j \in DOMAIN first : q.todo[i] = first[j]
                                  \/ \E j \in DOMAIN r.todo : q.todo[i] = r.todo[j]
  <2>1. DOMAIN r = RequestFields /\ IsSequence(r.todo)
    BY DEF RequestOK
  <2>2. Proceeded(q, r, first)
    BY <1>1, <2>1, ProceedParts, Zenon
  <2> HIDE DEF q
  <2> QED BY <2>2 DEF Proceeded
<1> HIDE DEF q
<1>3. \A i \in DOMAIN q.todo : \/ q.todo[i].do = "seed action"
                               \/ \E j \in DOMAIN r.todo : q.todo[i] = r.todo[j]
  BY <1>1, <1>2
<1>4. Writes(q) => Writes(r) /\ q.def = r.def
  BY <1>2, <1>3, NoStatement DEF Writes, Has
<1>5. Has(q, {"insert def"}) => Has(r, {"insert def"})
  BY <1>3 DEF Has
<1>6. \A i \in DOMAIN q.todo : q.todo[i].do = "insert op" => IsSequence(q.todo[i].path)
  BY <1>3 DEF RequestOK
<1>7. LessToDo(q, r)
  BY <1>2, <1>4, <1>5, <1>6 DEF LessToDo
<1> QED BY <1>7 DEF q

\* A request goes on when what it is still going to write is writable.
LEMMA GoesOn ==
  ASSUME NEW r, RequestOK(r), r.todo # <<>>, NEW first, SeedList(first),
         Writes(r) => Writable(r.def)
  PROVE  RequestOK(Proceed(r, first))
<1> DEFINE q == Proceed(r, first)
<1>1. LessToDo(q, r)
  BY LessAndLess, Zenon
<1> HIDE DEF q
<1>2. RequestOK(q)
  BY <1>1 DEF RequestOK, LessToDo, Guarded
<1> QED BY <1>2 DEF q

\* Once past the check and the update, the definition is writable.
LEMMA PastCheck ==
  ASSUME NEW r, RequestOK(r), r.todo # <<>>,
         Head(r.todo).do \notin {"check builtin", "update def"}
  PROVE  Writes(r) => Writable(r.def)
<1>1. Head(r.todo) = r.todo[1]
  BY SequenceParts DEF RequestOK
<1> QED BY <1>1 DEF RequestOK, Guarded
-----------------------------------------------------------------------------
(* Steps *)

\* Definitions are never deleted, and none becomes builtin or ceases to be.
Grows ==
  /\ Definitions \subseteq Definitions' /\ blind \subseteq blind'
  /\ \A d \in Definitions : defs'[d].builtin = defs[d].builtin

\* A request that may go on may still do so when the tables have grown.
LEMMA RequestFrame ==
  ASSUME Grows, NEW r, RequestOK(r)
  PROVE  RequestOK(r)'
<1>1. Writable(r.def) => Writable(r.def)'
  BY DEF Grows, Writable
<1>2. Guarded(r) => Guarded(r)'
  BY <1>1 DEF Guarded
<1>3. RequestFields' = RequestFields
  BY DEF RequestFields, NoRequest
<1>4. Writes(r)' = Writes(r) /\ Has(r, {"insert def"})' = Has(r, {"insert def"})
  BY DEF Writes, Has
<1> QED BY <1>2, <1>3, <1>4 DEF RequestOK, Grows

\* It matters to no request whether it is alone.
LEMMA DisturbedRequest ==
  ASSUME NEW r, RequestOK(r), NEW b
  PROVE  RequestOK([r EXCEPT !.alone = b])
<1> DEFINE q == [r EXCEPT !.alone = b]
<1>1. {"todo", "def", "read", "alone"} \subseteq DOMAIN r
  BY DEF RequestOK, RequestFields, NoRequest
<1>2. DOMAIN q = DOMAIN r /\ q.todo = r.todo /\ q.def = r.def /\ q.read = r.read
  BY <1>1
<1> HIDE DEF q
<1>3. Writes(q) = Writes(r) /\ Has(q, {"insert def"}) = Has(r, {"insert def"})
  BY <1>2 DEF Writes, Has
<1>4. Guarded(r) => Guarded(q)
  BY <1>2 DEF Guarded
<1>5. RequestOK(q)
  BY <1>2, <1>3, <1>4 DEF RequestOK
<1> QED BY <1>5 DEF q

\* One request becomes another one.
LEMMA RequestMoves ==
  ASSUME RequestInv, Grows, NEW p \in Admins, NEW r, RequestOK(r)',
         Become(p, r) \/ BecomeAndDisturb(p, r)
  PROVE  RequestInv'
<1>1. DOMAIN admin' = Admins
  BY DEF Become, BecomeAndDisturb, RequestInv
<1>2. ASSUME NEW q \in Admins
      PROVE  \/ q = p /\ admin'[q] = r
             \/ admin'[q] = admin[q]
             \/ admin'[q] = [admin[q] EXCEPT !.alone = FALSE]
  <2>1. CASE Become(p, r)
    BY <2>1 DEF Become, RequestInv
  <2>2. CASE BecomeAndDisturb(p, r)
    <3>1. admin'[q] = CASE q = p -> r
                        [] q # p /\ admin[q].def = admin[p].def -> [admin[q] EXCEPT !.alone = FALSE]
                        [] OTHER -> admin[q]
      BY <2>2, Zenon DEF BecomeAndDisturb
    <3> QED BY <3>1, Zenon
  <2> QED BY <2>1, <2>2
<1>3. ASSUME NEW q \in Admins PROVE RequestOK(admin[q])'
  <2>1. RequestOK(admin[q])
    BY DEF RequestInv
  <2>2. RequestOK([admin[q] EXCEPT !.alone = FALSE])
    BY <2>1, DisturbedRequest
  <2>3. \A x : RequestOK(x) => RequestOK(x)'
    BY RequestFrame
  <2>4. PICK x : x = admin'[q] /\ RequestOK(x)'
    <3>1. ASSUME NEW x, x = admin'[q], x = r \/ RequestOK(x) PROVE RequestOK(x)'
      BY <2>3, <3>1
    <3>2. admin'[q] = r \/ RequestOK(admin'[q])
      BY <1>2, <2>1, <2>2
    <3> QED BY <3>1, <3>2
  <2> QED BY <2>4
<1> QED BY <1>1, <1>3 DEF RequestInv
\* The operations of a builtin definition are kept.
KeepsSeeded ==
  \A d \in Definitions : Builtin(d)' =>
    \A o \in ops : o.def = d => \E q \in ops' : q.def = d /\ q.path = o.path

\* 0 stands for no definition.
LEMMA DefinitionNumbers == TableInv => Definitions = 1..Len(defs) /\ Len(defs) \in Nat
  BY SequenceParts DEF TableInv, Definitions

\* What a start has inserted is there as long as nothing takes it away.
LEMMA BootFrame ==
  ASSUME TableInv', Grows, KeepsSeeded, NEW b, BootOK(b)
  PROVE  BootOK(b)'
<1>1. 0 \notin Definitions'
  <2>1. Definitions' = 1..Len(defs')
    BY SequenceParts DEF TableInv, Definitions
  <2> QED BY <2>1
<1>2. b.def \in Definitions' => b.def \in Definitions
  BY <1>1 DEF BootOK
<1>3. Builtin(b.def)' => Builtin(b.def)
  BY <1>2 DEF Builtin, Grows
<1>4. ASSUME NEW i \in {1, 2}, Builtin(b.def)', Present(b.def, i) PROVE Present(b.def, i)'
  <2>1. PICK o \in ops : o.def = b.def /\ o.path = SeedOps[i].path
    BY <1>4 DEF Present
  <2>2. PICK q \in ops' : q.def = b.def /\ q.path = o.path
    BY <1>3, <1>4, <2>1 DEF KeepsSeeded, Builtin
  <2> QED BY <2>1, <2>2 DEF Present
<1>5. b.def \in Definitions' \cup {0}
  BY DEF BootOK, Grows
<1> QED BY <1>3, <1>4, <1>5 DEF BootOK

\* A step that leaves the starts alone.
LEMMA BootsStay ==
  ASSUME TableInv', Grows, KeepsSeeded, BootInv, UNCHANGED boot
  PROVE  BootInv'
<1>1. ASSUME NEW s \in Seeders PROVE BootOK(boot[s])'
  <2>1. PICK x : x = boot[s] /\ BootOK(x)
    BY DEF BootInv
  <2>2. BootOK(x)'
    BY <2>1, BootFrame
  <2>3. x = boot'[s]
    BY <2>1
  <2> QED BY <2>2, <2>3
<1> QED BY <1>1 DEF BootInv

\* A step that touches neither definitions nor operations.
LEMMA TablesStay ==
  ASSUME TableInv, KindInv, UNCHANGED <<defs, ops, lastOp, blind>>
  PROVE  TableInv' /\ KindInv' /\ Grows /\ KeepsSeeded
<1>1. TableInv'
  BY DEF TableInv, Definitions
<1>2. KindInv'
  BY DEF KindInv, Definitions
<1>3. Grows
  BY DEF Grows, Definitions
<1>4. KeepsSeeded
  BY DEF KeepsSeeded
<1> QED BY <1>1, <1>2, <1>3, <1>4

\* A step of a request that writes neither definitions nor operations.
LEMMA RequestStep ==
  ASSUME ConnectorInv, CountInv', UNCHANGED <<defs, ops, lastOp, blind, boot>>,
         NEW p \in Admins, NEW r, RequestOK(r), Become(p, r)
  PROVE  ConnectorInv'
<1>1. TableInv' /\ KindInv' /\ Grows /\ KeepsSeeded
  BY TablesStay DEF ConnectorInv
<1>2. RequestInv'
  BY <1>1, RequestFrame, RequestMoves DEF ConnectorInv
<1> QED BY <1>1, <1>2, BootsStay DEF ConnectorInv

\* A request starts.
LEMMA CallStep ==
  ASSUME ConnectorInv, NEW p \in Admins, AdminCall(p)
  PROVE  ConnectorInv'
<1>1. ASSUME NEW todo, NEW d \in ConnectorIds, NEW list, Request(p, todo, d, list),
             RequestOK([NoRequest("none") EXCEPT !.todo = todo, !.def = d, !.list = list])
      PROVE  ConnectorInv'
  <2>1. CountInv'
    BY <1>1, ConnectorTablesAssumption DEF Request, ConnectorInv, CountInv
  <2> QED BY <1>1, <2>1, RequestStep DEF Request, Become, tables
<1>2. ASSUME NEW todo, NEW d \in ConnectorIds, NEW list, NEW kinds, Request(p, todo, d, list),
             Statements(todo, kinds), kinds \cap {"update def", "delete ops"} = {}
      PROVE  ConnectorInv'
  BY <1>1, <1>2, NewRequest
<1>3. 0 \in ConnectorIds /\ Definitions \subseteq ConnectorIds
  BY DEF ConnectorIds
<1>4. ASSUME NEW b \in Bodies, createCustomConnector(p, b) PROVE ConnectorInv'
  <2>1. Request(p, CreateSteps(b), 0, Null)
    BY <1>4 DEF createCustomConnector
  <2>2. {"insert def", "insert op", "enable", "seed action"} \cap {"update def", "delete ops"} = {}
    OBVIOUS
  <2> QED BY <1>2, <1>3, <2>1, <2>2, CreateStatements
<1>5. ASSUME NEW b \in Bodies, NEW d \in Definitions, updateCustomConnector(p, d, b)
      PROVE  ConnectorInv'
  <2> DEFINE list == IF b.ops = <<>> THEN Null ELSE b.ops
  <2>1. Request(p, UpdateSteps(b), d, list)
    BY <1>5 DEF updateCustomConnector
  <2> HIDE DEF list
  <2>2. RequestOK([NoRequest("none") EXCEPT !.todo = UpdateSteps(b), !.def = d, !.list = list])
    BY <1>3, UpdateStatements, NewRequest
  <2> QED BY <1>1, <1>3, <2>1, <2>2
<1>6. ASSUME NEW c \in ConnectorIds, NEW on, putTenantConnector(p, c, on)
      PROVE  ConnectorInv'
  <2> DEFINE e == <<Enable(on, TRUE)>>
             a == IF on THEN <<Do("read display")>> ELSE <<>>
             K == {"enable", "read display"}
  <2>1. Statements(e, K) /\ Statements(a, K)
    BY FewStatements DEF Enable, Do
  <2>2. Request(p, e \o a, c, Null)
    BY <1>6 DEF putTenantConnector
  <2>3. K \cap {"update def", "delete ops"} = {}
    OBVIOUS
  <2> HIDE DEF e, a, K
  <2> QED BY <1>2, <2>1, <2>2, <2>3, JoinStatements
<1>7. ASSUME NEW o \in ops, NEW on, putConnectorAction(p, o.def, o.id, on)
      PROVE  ConnectorInv'
  <2> DEFINE c == [do |-> "check op", op |-> o.id]
             w == [do |-> "set op", op |-> o.id, on |-> on]
             K == {"check op", "set op"}
  <2>1. c.do = "check op" /\ w.do = "set op"
    OBVIOUS
  <2>2. Request(p, <<c, w>>, o.def, Null)
    BY <1>7 DEF putConnectorAction
  <2>3. o.def \in ConnectorIds
    BY <1>3 DEF ConnectorInv, TableInv
  <2> HIDE DEF c, w
  <2>4. IsSequence(<<c, w>>) /\ DOMAIN <<c, w>> = {1, 2} /\ <<c, w>>[1] = c /\ <<c, w>>[2] = w
    BY TwoStatements, Zenon
  <2>5. Statements(<<c, w>>, K)
    <3> DEFINE t == <<c, w>>
    <3>1. IsSequence(t) /\ DOMAIN t = {1, 2} /\ t[1] = c /\ t[2] = w
      BY <2>4
    <3> HIDE DEF t
    <3>2. Statements(t, K)
      BY <2>1, <3>1 DEF Statements
    <3> QED BY <3>2 DEF t
  <2>6. K \cap {"update def", "delete ops"} = {}
    OBVIOUS
  <2> HIDE DEF K
  <2> QED BY <1>2, <2>2, <2>3, <2>5, <2>6
<1>8. ASSUME NEW name, upsertConnector(p, name) PROVE ConnectorInv'
  <2> DEFINE c == [do |-> "upsert registry", name |-> name]
             K == {"upsert registry"}
  <2>1. c.do \in K \ {"insert op"} /\ K \cap {"update def", "delete ops"} = {}
    OBVIOUS
  <2>2. Request(p, <<c>>, 0, Null)
    BY <1>8 DEF upsertConnector
  <2> HIDE DEF c, K
  <2>3. Statements(<<c>>, K)
    BY <2>1, FewStatements, Zenon
  <2> QED BY <1>2, <1>3, <2>1, <2>2, <2>3
<1> QED BY <1>4, <1>5, <1>6, <1>7, <1>8 DEF AdminCall
\* A statement other than the check and the update is executed.
LEMMA ExecutedRequest ==
  ASSUME RequestInv, NEW p \in Admins, admin[p].todo # <<>>, NEW first, SeedList(first),
         Head(admin[p].todo).do \notin {"check builtin", "update def"}
  PROVE  RequestOK(Proceed(admin[p], first))
<1>1. RequestOK(admin[p])
  BY DEF RequestInv
<1>2. Writes(admin[p]) => Writable(admin[p].def)
  BY <1>1, PastCheck
<1> QED BY <1>1, <1>2, GoesOn

\* The check of builtin_kind, or the failure to read it, lets an update pass.
LEMMA CheckedRequest ==
  ASSUME RequestInv, NEW p \in Admins, CheckBuiltin(p)
  PROVE  \E r : RequestOK(r) /\ Become(p, r)
<1>1. RequestOK(admin[p]) /\ admin[p].todo # <<>>
  BY DEF RequestInv, CheckBuiltin, Doing
<1>2. CASE admin[p].def \in Definitions /\ defs[admin[p].def].builtin
  BY <1>2, EndedRequest DEF CheckBuiltin
<1>3. CASE ~(admin[p].def \in Definitions /\ defs[admin[p].def].builtin)
  <2>1. Writes(admin[p]) => Writable(admin[p].def)
    BY <1>1, <1>3 DEF RequestOK, Writable
  <2>2. RequestOK(Executed(p))
    BY <1>1, <2>1, GoesOn DEF Executed, SeedList
  <2>3. Become(p, Executed(p))
    BY <1>3 DEF CheckBuiltin
  <2> QED BY <2>2, <2>3
<1> QED BY <1>2, <1>3

\* A statement that fails, when the error is dropped.
LEMMA FailedRequest ==
  ASSUME RequestInv, NEW p \in Admins, StatementFails(p)
  PROVE  \E r : RequestOK(r) /\ Become(p, r)
<1> DEFINE r == admin[p]
           b == r.read /\ ~Doing(p, "check builtin")
           f == [r EXCEPT !.clean = FALSE, !.read = b]
           q == Proceed(f, <<>>)
<1>1. RequestOK(r) /\ r.todo # <<>>
  BY DEF RequestInv, StatementFails
<1>2. Become(p, q)
  BY DEF StatementFails
<1>3. DOMAIN r = RequestFields /\ IsSequence(r.todo)
  BY <1>1 DEF RequestOK
<1>4. {"todo", "def", "read", "clean"} \subseteq DOMAIN r
  BY <1>3 DEF RequestFields, NoRequest
<1>5. Head(r.todo) = r.todo[1]
  BY <1>1, <1>3, SequenceParts
<1>6. Head(r.todo).do # "update def"
  BY DEF StatementFails, Critical
<1>7. Head(r.todo).do = "check builtin" => b = FALSE
  BY <1>1 DEF Doing
<1> HIDE DEF b
<1>8. DOMAIN f = RequestFields /\ f.todo = r.todo /\ f.def = r.def /\ f.read = b
  BY <1>3, <1>4
<1> HIDE DEF f, r
<1>9. Writes(f) = Writes(r) /\ Has(f, {"insert def"}) = Has(r, {"insert def"})
  BY <1>8 DEF Writes, Has
<1>10. ASSUME Writes(r) => Writable(r.def) PROVE RequestOK(q)
  <2>1. RequestOK(f)
    BY <1>1, <1>8, <1>9, <1>10 DEF RequestOK, Guarded
  <2>2. f.todo # <<>> /\ (Writes(f) => Writable(f.def))
    BY <1>1, <1>8, <1>9, <1>10
  <2> QED BY <2>1, <2>2, GoesOn DEF SeedList
<1>11. ASSUME Writes(r), ~Writable(r.def) PROVE RequestOK(q)
  <2>1. r.todo[1].do = "check builtin" /\ Len(r.todo) > 1 /\ r.todo[2].do = "update def"
    BY <1>1, <1>5, <1>6, <1>11 DEF RequestOK, Guarded
  <2>2. b = FALSE
    BY <1>5, <1>7, <2>1
  <2>3. Proceeded(q, f, <<>>)
    BY <1>1, <1>3, <1>8, NoStatement, ProceedParts, Zenon
  <2> HIDE DEF q
  <2>4. /\ DOMAIN q = RequestFields /\ IsSequence(q.todo)
        /\ q.todo # <<>> => /\ q.def = r.def /\ q.read = FALSE /\ q.todo[1].do = "update def"
        /\ q.todo = <<>> => q.def = 0
        /\ \A i \in DOMAIN q.todo : \E j \in DOMAIN r.todo : q.todo[i] = r.todo[j]
    BY <1>8, <2>1, <2>2, <2>3, NoStatement DEF Proceeded
  <2>5. r.def \in Definitions /\ ~Has(r, {"insert def"})
    BY <1>1, <1>11 DEF RequestOK
  <2>6. Has(q, {"insert def"}) => Has(r, {"insert def"})
    BY <2>4 DEF Has
  <2>7. Writes(q) => q.todo # <<>>
    BY NoStatement DEF Writes, Has
  <2>8. \A i \in DOMAIN q.todo : q.todo[i].do = "insert op" => IsSequence(q.todo[i].path)
    BY <1>1, <2>4 DEF RequestOK
  <2> QED BY <2>4, <2>5, <2>6, <2>7, <2>8 DEF RequestOK, Guarded
<1> HIDE DEF q
<1> QED BY <1>2, <1>10, <1>11

\* The statements that touch neither definitions nor operations, and the ends
\* of requests.
LEMMA ReadStep ==
  ASSUME ConnectorInv, NEW p \in Admins,
         \/ CheckBuiltin(p) \/ EnableConnector(p) \/ ReadDisplay(p) \/ InsertAction(p)
         \/ CheckOperation(p) \/ UpsertRegistry(p) \/ StatementFails(p) \/ RequestEnds(p)
  PROVE  ConnectorInv'
<1>1. RequestInv
  BY DEF ConnectorInv
<1>2. UNCHANGED <<defs, ops, lastOp, blind, boot, calls, boots>>
  BY DEF CheckBuiltin, EnableConnector, ReadDisplay, InsertAction, CheckOperation, UpsertRegistry,
         StatementFails, RequestEnds, tables
<1>3. CountInv'
  BY <1>2 DEF ConnectorInv, CountInv
<1>4. \A x : RequestOK(NoRequest(x))
  BY EndedRequest
<1>5. ASSUME admin[p].todo # <<>>, Head(admin[p].todo).do \notin {"check builtin", "update def"}
      PROVE  RequestOK(Executed(p))
  BY <1>1, <1>5, ExecutedRequest DEF Executed, SeedList
<1>6. CASE EnableConnector(p) \/ InsertAction(p) \/ UpsertRegistry(p)
  <2>1. RequestOK(Executed(p)) /\ Become(p, Executed(p))
    BY <1>5, <1>6 DEF EnableConnector, InsertAction, UpsertRegistry, Doing
  <2> QED BY <1>2, <1>3, <2>1, RequestStep
<1>7. CASE CheckOperation(p)
  <2>1. RequestOK(Executed(p))
    BY <1>5, <1>7 DEF CheckOperation, Doing
  <2>2. Become(p, Executed(p)) \/ Become(p, NoRequest("refused"))
    BY <1>7 DEF CheckOperation
  <2> QED BY <1>2, <1>3, <1>4, <2>1, <2>2, RequestStep
<1>8. CASE ReadDisplay(p)
  <2>1. PICK first : SeedList(first) /\ Become(p, Proceed(admin[p], first))
    BY <1>8 DEF ReadDisplay, SeedList
  <2>2. RequestOK(Proceed(admin[p], first))
    BY <1>1, <1>8, <2>1, ExecutedRequest DEF ReadDisplay, Doing
  <2> QED BY <1>2, <1>3, <2>1, <2>2, RequestStep
<1>9. CASE RequestEnds(p)
  <2>1. Become(p, NoRequest("refused"))
    BY <1>9 DEF RequestEnds
  <2> QED BY <1>2, <1>3, <1>4, <2>1, RequestStep
<1>10. CASE CheckBuiltin(p) \/ StatementFails(p)
  <2>1. PICK r : RequestOK(r) /\ Become(p, r)
    BY <1>1, <1>10, CheckedRequest, FailedRequest
  <2> QED BY <1>2, <1>3, <2>1, RequestStep
<1> QED BY <1>6, <1>7, <1>8, <1>9, <1>10
-----------------------------------------------------------------------------
(* Writing the tables *)

\* A definition of a new kind is inserted.
LEMMA NewDefinition ==
  ASSUME TableInv, KindInv, NEW x, DOMAIN x = DefColumns, x.builtin \in BOOLEAN,
         x.builtin => x.kind = Shopify, ~KindTaken(x.kind, 0), defs' = Append(defs, x),
         UNCHANGED <<ops, lastOp, blind>>
  PROVE  TableInv' /\ KindInv' /\ Grows /\ KeepsSeeded /\ Len(defs) + 1 \in Definitions'
<1> DEFINE n == Len(defs)
           S == {defs[i] : i \in DOMAIN defs} \cup {x}
<1>1. n \in Nat /\ Definitions = 1..n
  BY DefinitionNumbers
<1>2. defs \in Seq(S) /\ x \in S
  BY SeqMonotonic DEF TableInv, IsSequence
<1> HIDE DEF S
<1>3. /\ defs' \in Seq(S) /\ Len(defs') = n + 1
      /\ \A i \in 1..n : defs'[i] = defs[i]
      /\ defs'[n + 1] = x
  BY <1>1, <1>2, AppendProperties
<1>4. Definitions' = 1..(n + 1) /\ defs' \in [1..(n + 1) -> S]
  BY <1>3, LenProperties DEF Definitions
<1>5. IsSequence(defs')
  <2>1. defs' = [i \in 1..(n + 1) |-> defs'[i]]
    BY <1>4
  <2>2. n + 1 \in Nat
    BY <1>1
  <2> HIDE DEF n
  <2> QED BY <2>1, <2>2, SequenceOf
<1> HIDE DEF n
<1>6. \A d \in Definitions' : (d \in Definitions /\ defs'[d] = defs[d]) \/ (d = n + 1 /\ defs'[d] = x)
  <2>1. \A d \in 1..(n + 1) : d \in 1..n \/ d = n + 1
    BY <1>1
  <2> QED BY <1>1, <1>3, <1>4, <2>1
<1>7. \A d \in Definitions : d \in Definitions' /\ defs'[d] = defs[d] /\ d # n + 1
  BY <1>1, <1>3, <1>4
<1>8. \A d \in Definitions : defs[d].kind # x.kind
  BY <1>1 DEF KindTaken
<1>9. TableInv'
  <2>1. \A d \in Definitions' : DOMAIN defs'[d] = DefColumns /\ defs'[d].builtin \in BOOLEAN
    BY <1>6 DEF TableInv
  <2>2. \A d, e \in Definitions' : defs'[d].kind = defs'[e].kind => d = e
    BY <1>6, <1>8 DEF TableInv
  <2>3. \A o \in ops : o.def \in Definitions'
    BY <1>7 DEF TableInv
  <2> QED BY <1>5, <2>1, <2>2, <2>3 DEF TableInv, DefColumns, OpColumns
<1>10. KindInv'
  BY <1>6 DEF KindInv
<1>11. Grows
  BY <1>7 DEF Grows
<1>12. KeepsSeeded
  BY DEF KeepsSeeded
<1>13. n + 1 \in Definitions'
  BY <1>1, <1>4
<1> QED BY <1>9, <1>10, <1>11, <1>12, <1>13 DEF n

\* An operation is inserted, if its definition exists.
LEMMA NewOperation ==
  ASSUME TableInv, KindInv, NEW d, NEW path, NEW scopes, NEW on, NEW by, IsSequence(path),
         ops' = WithOperation(d, path, scopes, on, by),
         lastOp' = IF ops' = ops THEN lastOp ELSE lastOp + 1,
         UNCHANGED <<defs, blind>>
  PROVE  TableInv' /\ KindInv' /\ Grows /\ KeepsSeeded
<1> DEFINE x == [id |-> lastOp + 1, def |-> d, path |-> path, scopes |-> scopes,
                 enabled |-> on, by |-> by]
<1>1. KindInv' /\ Grows
  BY DEF KindInv, Grows, Definitions
<1>2. CASE d \notin Definitions
  <2>1. UNCHANGED <<ops, lastOp>>
    BY <1>2 DEF WithOperation
  <2> QED BY <1>2, <2>1, TablesStay
<1>3. CASE d \in Definitions
  <2>1. ops' = ops \cup {x}
    BY <1>3 DEF WithOperation
  <2>2. x.id = lastOp + 1 /\ x.def = d /\ x.path = path /\ DOMAIN x = OpColumns
    BY DEF OpColumns
  <2> HIDE DEF x
  <2>3. lastOp \in Nat /\ \A o \in ops : o.id \in 1..lastOp
    BY DEF TableInv
  <2>4. x \notin ops
    BY <2>2, <2>3
  <2>5. lastOp' = lastOp + 1
    BY <2>1, <2>4
  <2>6. TableInv'
    <3>1. IsSequence(defs) /\ \A i \in Definitions : DOMAIN defs[i] = DefColumns /\ defs[i].builtin \in BOOLEAN
      BY DEF TableInv
    <3>2. \A i, e \in Definitions : defs[i].kind = defs[e].kind => i = e
      BY DEF TableInv
    <3>3. lastOp' \in Nat
      BY <2>5 DEF TableInv
    <3>4. ASSUME NEW o \in ops' PROVE /\ DOMAIN o = OpColumns
                                      /\ o.def \in Definitions /\ o.id \in 1..lastOp'
                                      /\ IsSequence(o.path)
      <4>1. CASE o = x
        BY <1>3, <2>2, <2>3, <2>5, <4>1
      <4>2. CASE o \in ops
        BY <2>3, <2>5, <4>2 DEF TableInv
      <4> QED BY <2>1, <4>1, <4>2
    <3>5. \A o1, o2 \in ops' : o1.id = o2.id => o1 = o2
      BY <2>1, <2>2, <2>3 DEF TableInv
    <3> QED BY <3>1, <3>2, <3>3, <3>4, <3>5 DEF TableInv, Definitions
  <2>7. KeepsSeeded
    BY <2>1 DEF KeepsSeeded
  <2> QED BY <1>1, <2>1, <2>2, <2>6, <2>7
<1> QED BY <1>2, <1>3
\* A step of a request that writes the tables.
LEMMA WriteStep ==
  ASSUME ConnectorInv, TableInv', KindInv', Grows, KeepsSeeded, UNCHANGED <<calls, boots, boot>>,
         NEW p \in Admins, NEW r, RequestOK(r)', Become(p, r) \/ BecomeAndDisturb(p, r)
  PROVE  ConnectorInv'
<1>1. RequestInv'
  BY RequestMoves DEF ConnectorInv
<1>2. BootInv'
  BY BootsStay DEF ConnectorInv
<1>3. CountInv'
  BY DEF ConnectorInv, CountInv
<1> QED BY <1>1, <1>2, <1>3 DEF ConnectorInv

\* createCustomConnector inserts its definition.
LEMMA InsertDefinitionStep ==
  ASSUME ConnectorInv, NEW p \in Admins, InsertDefinition(p)
  PROVE  ConnectorInv'
<1> DEFINE r == admin[p]
           b == Head(r.todo).body
           x == [kind |-> b.kind, title |-> b.title, url |-> TRUE, auth |-> b.auth, builtin |-> FALSE]
           q == Proceed(r, <<>>)
           n == IF q.todo = <<>> THEN 0 ELSE Len(defs) + 1
           f == [q EXCEPT !.def = n]
<1>1. RequestOK(r) /\ r.todo # <<>> /\ Head(r.todo).do = "insert def"
  BY DEF ConnectorInv, RequestInv, InsertDefinition, Doing
<1>2. UNCHANGED <<ops, lastOp, blind, calls, boots, boot>>
  BY DEF InsertDefinition
<1>3. CASE KindTaken(b.kind, 0)
  <2>1. Become(p, NoRequest("refused")) /\ UNCHANGED defs
    BY <1>3 DEF InsertDefinition
  <2>2. CountInv'
    BY <1>2 DEF ConnectorInv, CountInv
  <2> QED BY <1>2, <2>1, <2>2, EndedRequest, RequestStep
<1>4. CASE ~KindTaken(b.kind, 0)
  <2>1. defs' = Append(defs, x) /\ Become(p, f)
    BY <1>4 DEF InsertDefinition, Executed
  <2>2. x.kind = b.kind /\ x.builtin = FALSE /\ DOMAIN x = DefColumns
    BY DEF DefColumns
  <2> HIDE DEF x, b
  <2>3. TableInv' /\ KindInv' /\ Grows /\ KeepsSeeded /\ Len(defs) + 1 \in Definitions'
    BY <1>2, <1>4, <2>1, <2>2, NewDefinition DEF ConnectorInv
  <2>4. LessToDo(q, r)
    BY <1>1, LessAndLess DEF SeedList
  <2> HIDE DEF q
  <2>5. ~Writes(r)
    <3>1. Has(r, {"insert def"})
      BY <1>1, SequenceParts DEF RequestOK, Has
    <3> QED BY <1>1, <3>1 DEF RequestOK
  <2>6. n \in Definitions' \cup {0}
    BY <2>3
  <2> HIDE DEF n
  <2>7. {"todo", "def", "read"} \subseteq DOMAIN q
    BY <2>4 DEF LessToDo, RequestFields, NoRequest
  <2>8. DOMAIN f = RequestFields /\ f.todo = q.todo /\ f.def = n
    BY <2>4, <2>7 DEF LessToDo
  <2> HIDE DEF f
  <2>9. ~Writes(f)
    BY <2>4, <2>5, <2>8 DEF LessToDo, Writes, Has
  <2>10. /\ IsSequence(f.todo)
         /\ \A i \in DOMAIN f.todo : f.todo[i].do = "insert op" => IsSequence(f.todo[i].path)
    BY <2>4, <2>8 DEF LessToDo
  <2>11. PICK g : g = f
    OBVIOUS
  <2>12. RequestOK(g)'
    BY <2>6, <2>8, <2>9, <2>10, <2>11 DEF RequestOK, RequestFields, NoRequest, Writes, Has
  <2>13. Become(p, g)
    BY <2>1, <2>11
  <2> QED BY <1>2, <2>3, <2>12, <2>13, WriteStep
<1> QED BY <1>3, <1>4

\* updateCustomConnector updates its definition: a builtin one only when it
\* failed to read builtin_kind.
LEMMA UpdateDefinitionStep ==
  ASSUME ConnectorInv, NEW p \in Admins, UpdateDefinition(p)
  PROVE  ConnectorInv'
<1> DEFINE r == admin[p]
           b == Head(r.todo).body
           d == r.def
           q == Proceed(r, <<>>)
<1>1. RequestOK(r) /\ r.todo # <<>> /\ Head(r.todo).do = "update def"
  BY DEF ConnectorInv, RequestInv, UpdateDefinition, Doing
<1>2. UNCHANGED <<ops, lastOp, calls, boots, boot>>
  BY DEF UpdateDefinition
<1>3. Head(r.todo) = r.todo[1] /\ Writes(r)
  BY <1>1, SequenceParts DEF RequestOK, Writes, Has
<1>4. d \in Definitions /\ (defs[d].builtin => d \in blind \/ ~r.read) /\ ~Has(r, {"insert def"})
  BY <1>1, <1>3 DEF RequestOK, Guarded, Writable
<1>5. CASE b.kind # Null /\ KindTaken(b.kind, d)
  <2>1. Become(p, NoRequest("refused")) /\ UNCHANGED <<defs, blind>>
    BY <1>4, <1>5 DEF UpdateDefinition
  <2>2. CountInv'
    BY <1>2 DEF ConnectorInv, CountInv
  <2> QED BY <1>2, <2>1, <2>2, EndedRequest, RequestStep
<1>6. CASE ~(b.kind # Null /\ KindTaken(b.kind, d))
  <2> DEFINE y == [defs[d] EXCEPT !.kind = Given(b.kind, @), !.title = Given(b.title, @),
                                  !.auth = Given(b.auth, @), !.url = @ \/ b.url]
  <2>1. /\ defs' = [i \in Definitions |-> IF i # d THEN defs[i] ELSE y]
        /\ blind' = IF r.read THEN blind ELSE blind \cup {d}
        /\ Become(p, q)
    BY <1>6 DEF UpdateDefinition, Executed
  <2>2. /\ DOMAIN defs[d] = DefColumns /\ defs[d].builtin \in BOOLEAN
    BY <1>4 DEF ConnectorInv, TableInv
  <2>3. y.kind = Given(b.kind, defs[d].kind) /\ y.builtin = defs[d].builtin /\ DOMAIN y = DefColumns
    BY <2>2 DEF DefColumns
  <2> HIDE DEF y, b
  <2>4. /\ Definitions' = Definitions /\ defs'[d] = y
        /\ \A i \in Definitions \ {d} : defs'[i] = defs[i]
    BY <1>4, <2>1 DEF Definitions
  <2>5. TableInv'
    <3>1. IsSequence(defs')
      <4>1. Len(defs) \in Nat /\ Definitions = 1..Len(defs)
        BY DefinitionNumbers DEF ConnectorInv
      <4>2. defs' = [i \in 1..Len(defs) |-> defs'[i]]
        BY <2>1, <4>1
      <4> QED BY <4>1, <4>2, SequenceOf
    <3>2. \A i \in Definitions : DOMAIN defs'[i] = DefColumns /\ defs'[i].builtin \in BOOLEAN
      BY <2>2, <2>3, <2>4 DEF ConnectorInv, TableInv
    <3>3. \A i \in Definitions \ {d} : defs[i].kind # y.kind
      BY <1>4, <1>6, <2>3 DEF Given, KindTaken, ConnectorInv, TableInv
    <3>4. \A i, e \in Definitions : defs'[i].kind = defs'[e].kind => i = e
      BY <2>4, <3>3 DEF ConnectorInv, TableInv
    <3> QED BY <1>2, <2>4, <3>1, <3>2, <3>4 DEF ConnectorInv, TableInv, DefColumns, OpColumns
  <2>6. Grows
    BY <2>1, <2>3, <2>4 DEF Grows
  <2>7. defs[d].builtin => d \in blind'
    BY <1>4, <2>1
  <2>8. KindInv'
    BY <2>1, <2>3, <2>4, <2>7 DEF KindInv, ConnectorInv
  <2>9. KeepsSeeded
    BY <1>2 DEF KeepsSeeded
  <2>10. LessToDo(q, r)
    BY <1>1, LessAndLess DEF SeedList
  <2> HIDE DEF q, r
  <2>11. PICK g : g = q
    OBVIOUS
  <2>12. Writable(g.def)' \/ g.def # d
    BY <1>4, <2>3, <2>4, <2>7 DEF Writable
  <2>13. RequestOK(g)'
    <3>1. LessToDo(g, r)
      BY <2>10, <2>11
    <3>2. /\ DOMAIN g = RequestFields' /\ IsSequence(g.todo)
          /\ g.def \in Definitions' \cup {0}
          /\ \A i \in DOMAIN g.todo : g.todo[i].do = "insert op" => IsSequence(g.todo[i].path)
      BY <1>4, <2>4, <3>1 DEF LessToDo, RequestFields, NoRequest
    <3>3. ASSUME Writes(g)
          PROVE  g.def \in Definitions' /\ Writable(g.def)' /\ ~Has(g, {"insert def"})
      BY <1>4, <2>4, <2>12, <3>1, <3>3 DEF LessToDo
    <3>4. Writes(g)' = Writes(g) /\ Has(g, {"insert def"})' = Has(g, {"insert def"})
      BY DEF Writes, Has
    <3> QED BY <3>2, <3>3, <3>4 DEF RequestOK, Guarded
  <2>14. Become(p, g)
    BY <2>1, <2>11
  <2> QED BY <1>2, <2>5, <2>6, <2>8, <2>9, <2>13, <2>14, WriteStep
<1> QED BY <1>5, <1>6
\* updateCustomConnector deletes the operations of a definition that is not
\* builtin, or was overwritten already.
LEMMA DeleteOperationsStep ==
  ASSUME ConnectorInv, NEW p \in Admins, DeleteOperations(p)
  PROVE  ConnectorInv'
<1> DEFINE r == admin[p]
<1>1. RequestOK(r) /\ r.todo # <<>> /\ Head(r.todo).do = "delete ops"
  BY DEF ConnectorInv, RequestInv, DeleteOperations, Doing
<1>2. /\ ops' = {o \in ops : o.def # r.def}
      /\ UNCHANGED <<defs, lastOp, blind, calls, boots, boot>>
  BY DEF DeleteOperations
<1>3. Writable(r.def)
  <2>1. Writes(r)
    BY <1>1, SequenceParts DEF RequestOK, Writes, Has
  <2> QED BY <1>1, <2>1, PastCheck
<1>4. TableInv'
  BY <1>2 DEF ConnectorInv, TableInv, Definitions, DefColumns, OpColumns
<1>5. KindInv' /\ Grows
  BY <1>2 DEF ConnectorInv, KindInv, Grows, Definitions
<1>6. KeepsSeeded
  BY <1>2, <1>3 DEF KeepsSeeded, Builtin, Writable, Definitions
<1>7. RequestOK([Executed(p) EXCEPT !.alone = TRUE])
  BY <1>1, ExecutedRequest, DisturbedRequest DEF Executed, SeedList, ConnectorInv
<1>8. PICK g : g = [Executed(p) EXCEPT !.alone = TRUE]
  OBVIOUS
<1>9. RequestOK(g)' /\ BecomeAndDisturb(p, g)
  BY <1>5, <1>7, <1>8, RequestFrame DEF DeleteOperations
<1> QED BY <1>2, <1>4, <1>5, <1>6, <1>9, WriteStep

\* An admin's request inserts an operation.
LEMMA InsertOperationStep ==
  ASSUME ConnectorInv, NEW p \in Admins, InsertOperation(p)
  PROVE  ConnectorInv'
<1> DEFINE r == admin[p]
           s == Head(r.todo)
<1>1. RequestOK(r) /\ r.todo # <<>> /\ s.do = "insert op"
  BY DEF ConnectorInv, RequestInv, InsertOperation, Doing
<1>2. /\ ops' = WithOperation(r.def, s.path, s.scopes, s.on, "admin")
      /\ lastOp' = IF ops' = ops THEN lastOp ELSE lastOp + 1
      /\ UNCHANGED <<defs, blind, calls, boots, boot>>
      /\ BecomeAndDisturb(p, Executed(p))
  BY DEF InsertOperation
<1>3. IsSequence(s.path)
  BY <1>1, SequenceParts DEF RequestOK
<1>4. TableInv' /\ KindInv' /\ Grows /\ KeepsSeeded
  <2> HIDE DEF r, s
  <2> QED BY <1>2, <1>3, NewOperation DEF ConnectorInv
<1>5. RequestOK(Executed(p))
  BY <1>1, ExecutedRequest DEF Executed, SeedList, ConnectorInv
<1>6. PICK g : g = Executed(p)
  OBVIOUS
<1>7. RequestOK(g)' /\ BecomeAndDisturb(p, g)
  BY <1>2, <1>4, <1>5, <1>6, RequestFrame
<1> QED BY <1>2, <1>4, <1>7, WriteStep

\* putConnectorAction enables or disables an operation, whoever it belongs to.
LEMMA SetOperationStep ==
  ASSUME ConnectorInv, NEW p \in Admins, SetOperation(p)
  PROVE  ConnectorInv'
<1> DEFINE s == Head(admin[p].todo)
           F(o) == IF o.id = s.op THEN [o EXCEPT !.enabled = s.on] ELSE o
<1>1. admin[p].todo # <<>> /\ s.do = "set op"
  BY DEF SetOperation, Doing
<1>2. /\ ops' = {F(o) : o \in ops}
      /\ UNCHANGED <<defs, lastOp, blind, calls, boots, boot>>
      /\ BecomeAndDisturb(p, Executed(p))
  BY DEF SetOperation
<1>3. \A o \in ops : /\ DOMAIN F(o) = OpColumns /\ F(o).id = o.id /\ F(o).def = o.def
                     /\ F(o).path = o.path
  <2> SUFFICES ASSUME NEW o \in ops
               PROVE  /\ DOMAIN F(o) = OpColumns /\ F(o).id = o.id /\ F(o).def = o.def
                      /\ F(o).path = o.path
    OBVIOUS
  <2>1. DOMAIN o = OpColumns
    BY DEF ConnectorInv, TableInv
  <2>2. {"id", "def", "path"} \subseteq DOMAIN o
    BY <2>1 DEF OpColumns
  <2> QED BY <2>1, <2>2
<1> HIDE DEF F
<1>4. \A q \in ops' : \E o \in ops : q = F(o)
  BY <1>2
<1>5. TableInv'
  <2>1. \A q \in ops' : /\ DOMAIN q = OpColumns
                        /\ q.def \in Definitions /\ q.id \in 1..lastOp
                        /\ IsSequence(q.path)
    BY <1>3, <1>4 DEF ConnectorInv, TableInv
  <2>2. \A q1, q2 \in ops' : q1.id = q2.id => q1 = q2
    BY <1>3, <1>4 DEF ConnectorInv, TableInv
  <2> QED BY <1>2, <2>1, <2>2 DEF ConnectorInv, TableInv, Definitions
<1>6. KindInv' /\ Grows
  BY <1>2 DEF ConnectorInv, KindInv, Grows, Definitions
<1>7. KeepsSeeded
  BY <1>2, <1>3 DEF KeepsSeeded
<1>8. RequestOK(Executed(p))
  BY <1>1, ExecutedRequest DEF Executed, SeedList, ConnectorInv
<1>9. PICK g : g = Executed(p)
  OBVIOUS
<1>10. RequestOK(g)' /\ BecomeAndDisturb(p, g)
  BY <1>2, <1>6, <1>8, <1>9, RequestFrame
<1> QED BY <1>2, <1>5, <1>6, <1>7, <1>10, WriteStep

-----------------------------------------------------------------------------
(* Starts *)

\* A step of a start.
LEMMA StartStep ==
  ASSUME ConnectorInv, TableInv', KindInv', Grows, KeepsSeeded, CountInv', UNCHANGED admin,
         NEW s \in Seeders, NEW b, BootOK(b)', boot' = [boot EXCEPT ![s] = b]
  PROVE  ConnectorInv'
<1>1. RequestInv'
  <2>1. DOMAIN admin' = Admins
    BY DEF ConnectorInv, RequestInv
  <2>2. ASSUME NEW q \in Admins PROVE RequestOK(admin[q])'
    <3>1. PICK x : x = admin[q] /\ RequestOK(x)
      BY DEF ConnectorInv, RequestInv
    <3>2. RequestOK(x)' /\ x = admin'[q]
      BY <3>1, RequestFrame
    <3> QED BY <3>2
  <2> QED BY <2>1, <2>2 DEF RequestInv
<1>2. BootInv'
  <2>1. DOMAIN boot' = Seeders
    BY DEF ConnectorInv, BootInv
  <2>2. ASSUME NEW q \in Seeders PROVE BootOK(boot[q])'
    <3>1. PICK x : x = boot'[q]
      OBVIOUS
    <3>2. x = b \/ x = boot[q]
      BY <3>1 DEF ConnectorInv, BootInv
    <3>3. BootOK(x)'
      <4>1. CASE x = b
        BY <4>1
      <4>2. CASE x = boot[q]
        <5>1. BootOK(x)
          BY <4>2 DEF ConnectorInv, BootInv
        <5> QED BY <5>1, BootFrame
      <4> QED BY <3>2, <4>1, <4>2
    <3> QED BY <3>1, <3>3
  <2> QED BY <2>1, <2>2 DEF BootInv
<1> QED BY <1>1, <1>2 DEF ConnectorInv
\* A step of a start that touches neither definitions nor operations and does
\* not come to a point where operations must be there.
LEMMA StartReads ==
  ASSUME ConnectorInv, UNCHANGED <<defs, ops, lastOp, blind, admin>>, CountInv',
         NEW s \in Seeders, NEW b, boot' = [boot EXCEPT ![s] = b],
         DOMAIN b = {"pc", "def", "clean"}, b.def \in Definitions \cup {0},
         b.clean => b.pc \notin {"op2", "up"}
  PROVE  ConnectorInv'
<1>1. TableInv' /\ KindInv' /\ Grows /\ KeepsSeeded
  BY TablesStay DEF ConnectorInv
<1>2. BootOK(b)'
  BY DEF BootOK, Definitions
<1> QED BY <1>1, <1>2, StartStep

\* SeedFromEnv inserts one of its operations.
LEMMA SeedOperationStep ==
  ASSUME ConnectorInv, NEW s \in Seeders, NEW i \in {1, 2}, NEW pc, NEW next,
         SeedOperation(s, i, pc, next), i = 2 => pc = "op2",
         next = IF i = 1 THEN "op2" ELSE "up"
  PROVE  ConnectorInv'
<1> DEFINE a == boot[s]
           b == [a EXCEPT !.pc = next]
<1>1. BootOK(a) /\ a.pc = pc
  BY DEF ConnectorInv, BootInv, SeedOperation, Seeding
<1>2. /\ ops' = WithOperation(a.def, SeedOps[i].path, SeedOps[i].scopes, TRUE, "seed")
      /\ lastOp' = IF ops' = ops THEN lastOp ELSE lastOp + 1
      /\ boot' = [boot EXCEPT ![s] = b]
      /\ UNCHANGED <<defs, boots, calls, blind, admin>>
  BY DEF SeedOperation, Seeding
<1>4. DOMAIN a = {"pc", "def", "clean"}
  BY <1>1 DEF BootOK
<1>5. /\ DOMAIN b = {"pc", "def", "clean"} /\ b.def = a.def /\ b.clean = a.clean
      /\ b.pc = next
  BY <1>4
<1> HIDE DEF b
<1>6. IsSequence(SeedOps[i].path)
  BY BodiesAssumption
<1>7. /\ TableInv' /\ KindInv' /\ Grows /\ KeepsSeeded
      /\ a.def \in Definitions => \E o \in ops' : o.def = a.def /\ o.path = SeedOps[i].path
  <2> HIDE DEF a
  <2>1. TableInv /\ KindInv
    BY DEF ConnectorInv
  <2> DEFINE path == SeedOps[i].path
             scopes == SeedOps[i].scopes
             on == TRUE
  <2>2. ops' = WithOperation(a.def, path, scopes, on, "seed") /\ IsSequence(path)
    BY <1>2, <1>6
  <2> HIDE DEF path, scopes, on
  <2>3. TableInv' /\ KindInv' /\ Grows /\ KeepsSeeded
    BY <1>2, <2>1, <2>2, NewOperation
  <2>4. a.def \in Definitions => \E o \in ops' : o.def = a.def /\ o.path = path
    <3> DEFINE x == [id |-> lastOp + 1, def |-> a.def, path |-> path, scopes |-> scopes,
                     enabled |-> on, by |-> "seed"]
    <3>1. x.def = a.def /\ x.path = path
      OBVIOUS
    <3>2. a.def \in Definitions => ops' = ops \cup {x}
      BY <2>2, Zenon DEF WithOperation
    <3> HIDE DEF x
    <3> QED BY <3>1, <3>2
  <2> QED BY <2>3, <2>4 DEF path
<1>8. PICK x : x = a
  OBVIOUS
<1>9. BootOK(x)'
  BY <1>1, <1>7, <1>8, BootFrame
<1>10. PICK y : y = b
  OBVIOUS
<1>11. BootOK(y)'
  <2> HIDE DEF a
  <2>1. DOMAIN y = {"pc", "def", "clean"} /\ y.def = x.def /\ y.clean = x.clean
    BY <1>5, <1>8, <1>10
  <2>2. y.def \in Definitions' \cup {0}
    BY <1>9, <2>1 DEF BootOK
  <2>3. ASSUME y.clean, Builtin(y.def)'
        PROVE  /\ y.pc \in {"op2", "up"} => Present(y.def, 1)'
               /\ y.pc = "up" => Present(y.def, 2)'
    <3>1. y.def \in Definitions
      BY <1>2, <2>3 DEF Builtin, Definitions
    <3>2. Present(y.def, i)'
      BY <1>7, <1>8, <2>1, <3>1 DEF Present
    <3>3. i = 2 => Present(y.def, 1)'
      BY <1>1, <1>8, <1>9, <2>1, <2>3 DEF BootOK
    <3> QED BY <1>5, <1>10, <3>2, <3>3
  <2> QED BY <2>1, <2>2, <2>3 DEF BootOK
<1>12. CountInv'
  BY <1>2 DEF ConnectorInv, CountInv
<1> QED BY <1>2, <1>7, <1>10, <1>11, <1>12, StartStep

\* SeedFromEnv inserts the builtin definition.
LEMMA SeedInsertStep ==
  ASSUME ConnectorInv, NEW s \in Seeders, SeedInsert(s)
  PROVE  ConnectorInv'
<1> DEFINE stored == ~KindTaken(Shopify, 0)
           x == [kind |-> Shopify, title |-> Null, url |-> FALSE, auth |-> Null, builtin |-> TRUE]
           n == IF stored THEN Len(defs) + 1 ELSE 0
           b == [boot[s] EXCEPT !.pc = "op1", !.def = n]
<1>1. /\ defs' = IF stored THEN Append(defs, x) ELSE defs
      /\ boot' = [boot EXCEPT ![s] = b]
      /\ UNCHANGED <<ops, lastOp, boots, calls, blind, admin>>
  BY DEF SeedInsert, Seeding
<1>2. DOMAIN boot[s] = {"pc", "def", "clean"}
  BY DEF ConnectorInv, BootInv, BootOK
<1>3. DOMAIN b = {"pc", "def", "clean"} /\ b.pc = "op1" /\ b.def = n
  BY <1>2
<1> HIDE DEF b
<1>4. CountInv'
  BY <1>1 DEF ConnectorInv, CountInv
<1>5. CASE ~stored
  BY <1>1, <1>3, <1>4, <1>5, StartReads
<1>6. CASE stored
  <2>1. x.kind = Shopify /\ x.builtin = TRUE /\ DOMAIN x = DefColumns
    BY DEF DefColumns
  <2> HIDE DEF x
  <2>2. TableInv' /\ KindInv' /\ Grows /\ KeepsSeeded /\ Len(defs) + 1 \in Definitions'
    BY <1>1, <1>6, <2>1, NewDefinition DEF ConnectorInv
  <2>3. PICK y : y = b
    OBVIOUS
  <2>4. BootOK(y)'
    BY <1>3, <1>6, <2>2, <2>3 DEF BootOK
  <2> QED BY <1>1, <1>4, <2>2, <2>3, <2>4, StartStep
<1> QED BY <1>5, <1>6

\* The other steps of a start.
LEMMA OtherStartSteps ==
  ASSUME ConnectorInv, NEW s \in Seeders,
         Start(s) \/ SeedSelect(s) \/ SeedFails(s) \/ Stop(s) \/ Crash(s)
  PROVE  ConnectorInv'
<1>1. UNCHANGED <<defs, ops, lastOp, blind, admin, calls>>
  BY DEF Start, SeedSelect, SeedFails, Stop, Crash, Stopped, Seeding
<1>2. CountInv'
  BY <1>1, ConnectorTablesAssumption
     DEF ConnectorInv, CountInv, Start, SeedSelect, SeedFails, Stop, Crash, Stopped
<1>3. DOMAIN boot[s] = {"pc", "def", "clean"} /\ boot[s].def \in Definitions \cup {0}
  BY DEF ConnectorInv, BootInv, BootOK
<1>4. CASE Start(s) \/ Stop(s) \/ Crash(s)
  <2>1. PICK pc \in {"select", "down"} :
          boot' = [boot EXCEPT ![s] = [pc |-> pc, def |-> 0, clean |-> TRUE]]
    BY <1>4 DEF Start, Stop, Crash, Stopped, Seeding
  <2>2. PICK y : y = [pc |-> pc, def |-> 0, clean |-> TRUE]
    OBVIOUS
  <2>3. DOMAIN y = {"pc", "def", "clean"} /\ y.pc = pc /\ y.def = 0
    BY <2>2
  <2> QED BY <1>1, <1>2, <2>1, <2>2, <2>3, StartReads
<1>5. CASE SeedSelect(s)
  <2> DEFINE found == {d \in Definitions : defs[d].kind = Shopify}
             pc == IF found = {} THEN "insert" ELSE "op1"
             n == IF found = {} THEN 0 ELSE CHOOSE d \in found : TRUE
             b == [boot[s] EXCEPT !.pc = pc, !.def = n]
  <2>1. boot' = [boot EXCEPT ![s] = b]
    BY <1>5 DEF SeedSelect, Seeding
  <2>2. pc \in {"insert", "op1"} /\ n \in Definitions \cup {0}
    OBVIOUS
  <2> HIDE DEF pc, n
  <2>3. DOMAIN b = {"pc", "def", "clean"} /\ b.pc = pc /\ b.def = n
    BY <1>3
  <2> HIDE DEF b
  <2> QED BY <1>1, <1>2, <2>1, <2>2, <2>3, StartReads
<1>6. CASE SeedFails(s)
  <2>1. PICK pc : boot' = [boot EXCEPT ![s] = [boot[s] EXCEPT !.pc = pc, !.clean = FALSE]]
    BY <1>6, Zenon DEF SeedFails, Seeding
  <2> DEFINE b == [boot[s] EXCEPT !.pc = pc, !.clean = FALSE]
  <2>2. DOMAIN b = {"pc", "def", "clean"} /\ b.clean = FALSE /\ b.def = boot[s].def
    BY <1>3
  <2>3. boot' = [boot EXCEPT ![s] = b]
    BY <2>1
  <2> HIDE DEF b
  <2> QED BY <1>1, <1>2, <1>3, <2>2, <2>3, StartReads
<1> QED BY <1>4, <1>5, <1>6

\* The start of the admin API touches no definition; its stop ends requests.
LEMMA ApiStep ==
  ASSUME ConnectorInv, ApiNext \/ StartFails
  PROVE  ConnectorInv'
<1>1. UNCHANGED <<defs, ops, lastOp, blind, calls, boot>>
  BY DEF ApiNext, StartApi, ImportConnectors, CountConnectors, SeedDefaultConnector, StopApi,
         StartFails, Starting
<1>2. CountInv'
  BY <1>1, ConnectorTablesAssumption
     DEF ConnectorInv, CountInv, ApiNext, StartApi, ImportConnectors, CountConnectors,
         SeedDefaultConnector, StopApi, StartFails
<1>3. TableInv' /\ KindInv' /\ Grows /\ KeepsSeeded
  BY <1>1, TablesStay DEF ConnectorInv
<1>4. BootInv'
  BY <1>1, <1>3, BootsStay DEF ConnectorInv
<1>5. RequestInv'
  <2>1. DOMAIN admin' = Admins
    BY DEF ConnectorInv, RequestInv, ApiNext, StartApi, ImportConnectors, CountConnectors,
           SeedDefaultConnector, StopApi, StartFails
  <2>2. ASSUME NEW q \in Admins PROVE RequestOK(admin[q])'
    <3>1. PICK x : x = admin'[q]
      OBVIOUS
    <3>2. x = admin[q] \/ x = NoRequest("refused")
      BY <3>1 DEF ApiNext, StartApi, ImportConnectors, CountConnectors, SeedDefaultConnector,
                  StopApi, StartFails
    <3>3. RequestOK(x)
      BY <3>2, EndedRequest DEF ConnectorInv, RequestInv
    <3>4. RequestOK(x)'
      BY <1>3, <3>3, RequestFrame
    <3> QED BY <3>1, <3>4
  <2> QED BY <2>1, <2>2 DEF RequestInv
<1> QED BY <1>2, <1>3, <1>4, <1>5 DEF ConnectorInv
-----------------------------------------------------------------------------
(* The invariant *)

\* It holds at the start.
LEMMA InitConnectorInv == ConnectorInit => ConnectorInv
<1> SUFFICES ASSUME ConnectorInit PROVE ConnectorInv
  OBVIOUS
<1>1. PICK f \in Found : defs = f.defs /\ ops = f.ops /\ lastOp = Cardinality(f.ops)
  BY DEF ConnectorInit
<1>2. lastOp \in Nat
  BY <1>1, FoundAssumption, FS_CardinalityType
<1>3. TableInv
  BY <1>1, <1>2, FoundAssumption DEF TableInv, Definitions
<1>4. KindInv
  BY <1>1, FoundAssumption DEF KindInv, Definitions
<1>5. CountInv
  BY ConnectorTablesAssumption DEF ConnectorInit, CountInv
<1>6. RequestInv
  BY EndedRequest DEF ConnectorInit, RequestInv
<1>7. BootInv
  <2>1. ASSUME NEW s \in Seeders PROVE BootOK(boot[s])
    <3>1. boot[s] = [pc |-> "down", def |-> 0, clean |-> TRUE]
      BY DEF ConnectorInit
    <3>2. DOMAIN boot[s] = {"pc", "def", "clean"} /\ boot[s].pc = "down" /\ boot[s].def = 0
      BY <3>1
    <3> QED BY <3>2 DEF BootOK
  <2> QED BY <2>1 DEF ConnectorInit, BootInv
<1> QED BY <1>3, <1>4, <1>5, <1>6, <1>7 DEF ConnectorInv

\* Steps beside the tables and their requests may only count.
LEMMA TablesRest ==
  ASSUME ConnectorInv, UNCHANGED <<tables, admin, boot, blind>>, CountInv'
  PROVE  ConnectorInv'
<1>1. UNCHANGED <<defs, ops, lastOp, blind, boot, admin>>
  BY DEF tables
<1>2. TableInv' /\ KindInv' /\ Grows /\ KeepsSeeded
  BY <1>1, TablesStay DEF ConnectorInv
<1>3. BootInv'
  BY <1>1, <1>2, BootsStay DEF ConnectorInv
<1>4. RequestInv'
  <2>1. ASSUME NEW q \in Admins PROVE RequestOK(admin[q])'
    <3>1. PICK x : x = admin[q] /\ RequestOK(x)
      BY DEF ConnectorInv, RequestInv
    <3>2. RequestOK(x)' /\ x = admin'[q]
      BY <1>1, <1>2, <3>1, RequestFrame
    <3> QED BY <3>2
  <2> QED BY <1>1, <2>1 DEF ConnectorInv, RequestInv
<1> QED BY <1>2, <1>3, <1>4 DEF ConnectorInv

\* Every step keeps it.
LEMMA NextConnectorInv == ConnectorInv /\ [ConnectorNext]_connectorVars => ConnectorInv'
<1> SUFFICES ASSUME ConnectorInv, [ConnectorNext]_connectorVars PROVE ConnectorInv'
  OBVIOUS
<1>1. ASSUME NEW p \in Admins, AdminStep(p) PROVE ConnectorInv'
  BY <1>1, ReadStep, InsertDefinitionStep, UpdateDefinitionStep, DeleteOperationsStep,
     InsertOperationStep, SetOperationStep DEF AdminStep
<1>2. ASSUME NEW s \in Seeders, SeedNext(s) PROVE ConnectorInv'
  <2>1. CASE SeedCheckout(s)
    BY <2>1, SeedOperationStep DEF SeedCheckout
  <2>2. CASE SeedRefund(s)
    BY <2>2, SeedOperationStep DEF SeedRefund
  <2> QED BY <1>2, <2>1, <2>2, SeedInsertStep, OtherStartSteps DEF SeedNext
<1>3. CASE Fault
  BY <1>3, ReadStep, OtherStartSteps, ApiStep DEF Fault
<1>4. CASE UNCHANGED connectorVars
  <2>1. UNCHANGED <<tables, admin, boot, blind>> /\ UNCHANGED <<calls, boots>>
    BY <1>4 DEF connectorVars
  <2>2. CountInv'
    BY <2>1 DEF ConnectorInv, CountInv
  <2> QED BY <2>1, <2>2, TablesRest
<1> QED BY <1>1, <1>2, <1>3, <1>4, CallStep, ApiStep DEF ConnectorNext

\* The invariant of the connector tables.
LEMMA ConnectorInvariant == ConnectorSpec => []ConnectorInv
  BY InitConnectorInv, NextConnectorInv, PTL DEF ConnectorSpec

\* The constraints are part of the invariant.
LEMMA TablesTyped == ConnectorInv => ConnectorTypeOK
  BY DEF ConnectorInv, TableInv, CountInv, ConnectorTypeOK, KindTaken

\* The constraints of the connector tables hold: no handler leaves an operation
\* without its definition, two definitions of one kind, or reuses an id.
THEOREM ConnectorTypeCorrect == ConnectorSpec => []ConnectorTypeOK
  BY TablesTyped, ConnectorInvariant, PTL

\* The seed's operations and kind are those that BootInv and KindInv keep.
LEMMA BuiltinsKept == ConnectorInv => BuiltinsIntact
<1> SUFFICES ASSUME ConnectorInv, NEW d \in Definitions \ blind, defs[d].builtin
             PROVE  /\ defs[d].kind = Shopify
                    /\ \A s \in Seeders : boot[s].pc = "up" /\ boot[s].clean /\ boot[s].def = d =>
                         \A i \in {1, 2} : \E o \in ops : o.def = d /\ o.path = SeedOps[i].path
  BY DEF BuiltinsIntact
<1>1. defs[d].kind = Shopify
  BY DEF ConnectorInv, KindInv
<1>2. ASSUME NEW s \in Seeders, boot[s].pc = "up", boot[s].clean, boot[s].def = d
      PROVE  Present(d, 1) /\ Present(d, 2)
  BY <1>2 DEF ConnectorInv, BootInv, BootOK, Builtin
<1> QED BY <1>1, <1>2 DEF Present

\* Builtin definitions stay as SeedFromEnv wrote them, whatever requests to the
\* admin API and starts of services overlap and whichever statements fail, but
\* for the update that goes on after it failed to read builtin_kind.
THEOREM BuiltinsReadOnly == ConnectorSpec => []BuiltinsIntact
  BY BuiltinsKept, ConnectorInvariant, PTL

-----------------------------------------------------------------------------
(* Keys *)

\* A path that has static segments has a last one.
LEMMA LastOfPath ==
  ASSUME NEW path, IsSequence(path), Statics(path) # {}
  PROVE  Max(Statics(path)) \in DOMAIN path
<1> DEFINE S == Statics(path)
           n == Len(path)
           T == {n - i : i \in S}
<1>1. n \in Nat /\ S \subseteq 1..n /\ DOMAIN path = 1..n
  BY SequenceParts DEF Statics
<1> HIDE DEF S, n
<1>2. T \subseteq Nat /\ T # {}
  BY <1>1 DEF S
<1>3. PICK x \in T : \A y \in T : x <= y
  <2>1. PICK x \in T : \A y \in T : ~(<<y, x>> \in OpToRel(<, Nat))
    BY <1>2, NatLessThanWellFounded, WFMin
  <2> HIDE DEF T
  <2>2. \A y \in Nat : <<y, x>> \in OpToRel(<, Nat) <=> y < x
    BY <1>2, <2>1 DEF OpToRel
  <2>3. \A y \in T : ~(y < x) /\ x \in Nat /\ y \in Nat
    BY <1>2, <2>1, <2>2, Zenon
  <2>4. \A y \in T : x <= y
    BY <2>3
  <2> QED BY <2>4
<1>5. PICK i \in S : x = n - i
  OBVIOUS
<1>6. \A j \in S : n - j \in T
  OBVIOUS
<1> HIDE DEF T
<1>7. \A j \in S : i >= j
  BY <1>1, <1>3, <1>5, <1>6
<1>8. Max(S) \in S
  BY <1>5, <1>7, Zenon DEF Max
<1> QED BY <1>1, <1>8 DEF S

\* A segment without capitals inside has the same short name for the manifest
\* and for the orchestrator.
LEMMA SameShortName ==
  ASSUME NEW path, IsSequence(path), \A i \in DOMAIN path : ~path[i].camel
  PROVE  deriveName(path) = deriveShort(path)
<1>1. CASE Statics(path) = {}
  BY <1>1 DEF deriveName, deriveShort
<1>2. CASE Statics(path) # {}
  <2>1. ~LastStatic(path).camel
    BY <1>2, LastOfPath DEF LastStatic
  <2>2. lowered(LastStatic(path)) = slug(LastStatic(path))
    BY <2>1 DEF lowered
  <2> QED BY <2>2, <1>2 DEF deriveName, deriveShort
<1> QED BY <1>1, <1>2

\* A row of the manifest's view whose operation is enabled is in the view of
\* Execute, under a kind and a path that give the same key.
LEMMA KeysFound == ConnectorInv => \A r \in LoadView : KeyFound(r)
<1> SUFFICES ASSUME ConnectorInv, NEW r \in LoadView, \A o \in ops : o.id = r.op => o.enabled,
                    \A i \in DOMAIN r.path : ~r.path[i].camel, slug(r.kind) # <<>>
             PROVE  LET key  == ManifestKey(TenantSlug, r.kind, r.path)
                        runs == Resolutions(ExecuteView, key)
                    IN  runs # {} /\ \A x \in runs : deriveShort(x.path) = key.short
  BY DEF KeyFound
<1>0. PICK q \in ops :
         r = [op |-> q.id, path |-> q.path, scopes |-> q.scopes, url |-> defs[q.def].url,
              auth |-> defs[q.def].auth, kind |-> defs[q.def].kind]
  BY DEF LoadView
<1> DEFINE key == ManifestKey(TenantSlug, r.kind, r.path)
<1>1. r.path = q.path /\ r.kind = defs[q.def].kind /\ q.enabled /\ IsSequence(r.path)
  <2>1. r.op = q.id /\ r.path = q.path /\ r.kind = defs[q.def].kind
    BY <1>0
  <2> QED BY <2>1 DEF ConnectorInv, TableInv
<1>2. key.ns = slug(r.kind) /\ key.short = deriveShort(r.path)
  BY <1>1, SameShortName DEF ManifestKey
<1> DEFINE x == [op |-> q.id, path |-> q.path, kind |-> defs[q.def].kind,
                 title |-> IF defs[q.def].title = Null THEN Blank ELSE defs[q.def].title]
<1>3. x \in ExecuteView
  BY <1>1 DEF ExecuteView
<1>4. x.kind = r.kind /\ x.path = r.path
  BY <1>1
<1> HIDE DEF x, key
<1> DEFINE exact == {y \in Namesakes(ExecuteView, key) : deriveShort(y.path) = key.short}
<1>5. x \in exact
  BY <1>2, <1>3, <1>4 DEF Namesakes
<1>6. Resolutions(ExecuteView, key) = exact
  BY <1>5 DEF Resolutions
<1>7. /\ Resolutions(ExecuteView, key) # {}
      /\ \A y \in Resolutions(ExecuteView, key) : deriveShort(y.path) = key.short
  BY <1>5, <1>6
<1> QED BY <1>7 DEF key

-----------------------------------------------------------------------------
(* Updates that replace the operations *)

\* The two kinds of statement that touch the operations of an update.
IsDelete(s) == s.do = "delete ops"
IsInsert(s) == s.do = "insert op"

\* The rest of an update: the deletion, if it is still to come, and then the
\* inserts of the list.
Shape(todo, list) ==
  /\ IsSequence(list) /\ list # <<>> /\ todo # <<>>
  /\ \A j \in 1..Len(list) : Len(todo) - Len(list) + j >= 1 =>
       todo[Len(todo) - Len(list) + j] = Inserts(list)[j]
  /\ \A i \in DOMAIN todo : IsDelete(todo[i]) <=> i = Len(todo) - Len(list)

\* The admins' operations of a definition.
Left(d) == {o \in ops : o.def = d /\ o.by = "admin"}

\* They are the first k of the list.
Written(d, list, k) ==
  /\ IsFiniteSet(Left(d)) /\ Cardinality(Left(d)) = k
  /\ {[path |-> o.path, on |-> o.enabled] : o \in Left(d)}
       = {[path |-> list[i].path, on |-> list[i].enabled # FALSE] : i \in 1..k}

\* An update past its deletion has written what it no longer has to.
ListOK(r) ==
  r.list # Null =>
    /\ Shape(r.todo, r.list)
    /\ r.alone /\ r.clean /\ r.def \in Definitions /\ Len(r.todo) <= Len(r.list) =>
         Written(r.def, r.list, Len(r.list) - Len(r.todo))

\* The operation that a request enables belongs to the request's definition.
SetOK(r) ==
  /\ \A i \in DOMAIN r.todo : r.todo[i].do = "set op" =>
       r.todo[i].op \in 1..lastOp /\ \A o \in ops : o.id = r.todo[i].op => o.def = r.def
  /\ Has(r, {"insert def"}) => ~Has(r, {"set op"}) /\ r.list = Null

\* Every update has left, and has written, what its place in the list says.
ReplaceInv == \A p \in Admins : ListOK(admin[p]) /\ SetOK(admin[p])

\* Where an update stands, by its next statement.
LEMMA ShapeHead ==
  ASSUME NEW todo, NEW list, IsSequence(todo), Shape(todo, list)
  PROVE  /\ Len(todo) \in Nat /\ Len(todo) > 0 /\ Len(list) \in Nat /\ Len(list) > 0
         /\ DOMAIN todo = 1..Len(todo) /\ DOMAIN list = 1..Len(list)
         /\ IsDelete(todo[1]) => Len(todo) = Len(list) + 1
         /\ ~IsDelete(todo[1]) /\ ~IsInsert(todo[1]) => Len(todo) > Len(list) + 1
         /\ IsInsert(todo[1]) => Len(todo) # Len(list) + 1
         /\ Len(todo) <= Len(list) => todo[1] = Inserts(list)[Len(list) - Len(todo) + 1]
<1> DEFINE m == Len(todo)
           n == Len(list)
<1>1. m \in Nat /\ m > 0 /\ n \in Nat /\ n > 0 /\ DOMAIN todo = 1..m /\ DOMAIN list = 1..n
  BY SequenceParts DEF Shape
<1>2. /\ \A j \in 1..n : m - n + j >= 1 => todo[m - n + j] = Inserts(list)[j]
      /\ \A i \in DOMAIN todo : IsDelete(todo[i]) <=> i = m - n
  BY DEF Shape
<1>3. \A j \in 1..n : IsInsert(Inserts(list)[j]) /\ ~IsDelete(Inserts(list)[j])
  BY <1>1 DEF Inserts, IsInsert, IsDelete
<1> HIDE DEF m, n
<1>4. ASSUME m <= n PROVE todo[1] = Inserts(list)[n - m + 1] /\ IsInsert(todo[1])
  <2>1. n - m + 1 \in 1..n /\ m - n + (n - m + 1) = 1
    BY <1>1, <1>4
  <2>2. todo[m - n + (n - m + 1)] = Inserts(list)[n - m + 1]
    BY <1>2, <2>1
  <2> QED BY <1>3, <2>1, <2>2
<1>5. IsDelete(todo[1]) <=> 1 = m - n
  BY <1>1, <1>2
<1>6. /\ IsDelete(todo[1]) => m = n + 1
      /\ ~IsDelete(todo[1]) /\ ~IsInsert(todo[1]) => m > n + 1
      /\ IsInsert(todo[1]) => m # n + 1
  <2>1. IsInsert(todo[1]) => ~IsDelete(todo[1])
    BY DEF IsInsert, IsDelete
  <2> QED BY <1>1, <1>4, <1>5, <2>1
<1>7. m <= n => todo[1] = Inserts(list)[n - m + 1]
  BY <1>4
<1>8. /\ IsDelete(todo[1]) => Len(todo) = Len(list) + 1
      /\ ~IsDelete(todo[1]) /\ ~IsInsert(todo[1]) => Len(todo) > Len(list) + 1
      /\ IsInsert(todo[1]) => Len(todo) # Len(list) + 1
  BY <1>6, Zenon DEF m, n
<1>9. Len(todo) <= Len(list) => todo[1] = Inserts(list)[Len(list) - Len(todo) + 1]
  BY <1>7, Zenon DEF m, n
<1>10. /\ Len(todo) \in Nat /\ Len(todo) > 0 /\ Len(list) \in Nat /\ Len(list) > 0
       /\ DOMAIN todo = 1..Len(todo) /\ DOMAIN list = 1..Len(list)
  BY <1>1, Zenon DEF m, n
<1> QED BY <1>8, <1>9, <1>10, Zenon

\* What is left of an update after a statement is the rest of an update.
LEMMA ShapeRest ==
  ASSUME NEW todo, NEW list, IsSequence(todo), Shape(todo, list), Tail(todo) # <<>>
  PROVE  Shape(Tail(todo), list)
<1> DEFINE m == Len(todo)
           n == Len(list)
           t == Tail(todo)
<1>1. m \in Nat /\ m > 0 /\ n \in Nat /\ n > 0 /\ DOMAIN todo = 1..m
  BY ShapeHead
<1>2. IsSequence(t) /\ Len(t) = m - 1 /\ \A i \in DOMAIN t : i + 1 \in DOMAIN todo /\ t[i] = todo[i + 1]
  BY RestParts DEF Shape
<1>3. /\ \A j \in 1..n : m - n + j >= 1 => todo[m - n + j] = Inserts(list)[j]
      /\ \A i \in DOMAIN todo : IsDelete(todo[i]) <=> i = m - n
      /\ IsSequence(list) /\ list # <<>>
  BY DEF Shape
<1>4. t # <<>>
  OBVIOUS
<1> HIDE DEF t
<1>5. DOMAIN t = 1..(m - 1)
  BY <1>2, SequenceParts
<1> HIDE DEF m, n
<1>6. ASSUME NEW j \in 1..n, (m - 1) - n + j >= 1 PROVE t[(m - 1) - n + j] = Inserts(list)[j]
  <2>1. (m - 1) - n + j \in DOMAIN t /\ ((m - 1) - n + j) + 1 = m - n + j /\ m - n + j >= 1
    BY <1>1, <1>5, <1>6
  <2> QED BY <1>2, <1>3, <2>1
<1>7. \A i \in DOMAIN t : IsDelete(t[i]) <=> i = (m - 1) - n
  BY <1>1, <1>2, <1>3, <1>5
<1>8. Shape(t, list)
  BY <1>2, <1>3, <1>4, <1>6, <1>7 DEF Shape, n
<1> QED BY <1>8 DEF t

\* The same when an action is to be inserted first.
LEMMA ShapeSeeded ==
  ASSUME NEW todo, NEW list, IsSequence(todo), Shape(todo, list), Len(todo) > Len(list) + 1,
         NEW x, ~IsDelete(x)
  PROVE  Shape(<<x>> \o Tail(todo), list) /\ Len(<<x>> \o Tail(todo)) = Len(todo)
<1> DEFINE m == Len(todo)
           n == Len(list)
           t == Tail(todo)
           u == <<x>> \o t
           v == <<x>>
<1>1. m \in Nat /\ m > n + 1 /\ n \in Nat /\ n > 0 /\ DOMAIN todo = 1..m
  BY ShapeHead
<1>2. IsSequence(t) /\ Len(t) = m - 1 /\ \A i \in DOMAIN t : t[i] = todo[i + 1]
  BY RestParts DEF Shape
<1>3. /\ \A j \in 1..n : m - n + j >= 1 => todo[m - n + j] = Inserts(list)[j]
      /\ \A i \in DOMAIN todo : IsDelete(todo[i]) <=> i = m - n
      /\ IsSequence(list) /\ list # <<>>
  BY DEF Shape
<1>4. IsSequence(v) /\ Len(v) = 1 /\ DOMAIN v = {1} /\ v[1] = x
  BY OneStatement, Zenon
<1> HIDE DEF t
<1>5. Joined(u, v, t)
  BY <1>2, <1>4, JoinParts, Zenon
<1>6. DOMAIN t = 1..(m - 1)
  BY <1>2, SequenceParts
<1> HIDE DEF u, v, m, n
<1>7. IsSequence(u) /\ Len(u) = m /\ DOMAIN u = 1..m /\ u[1] = x
  BY <1>1, <1>2, <1>4, <1>5 DEF Joined
<1>8. \A i \in 2..m : u[i] = todo[i]
  <2> SUFFICES ASSUME NEW i \in 2..m PROVE u[i] = todo[i]
    OBVIOUS
  <2>1. i - 1 \in DOMAIN t /\ 1 + (i - 1) = i /\ (i - 1) + 1 = i
    BY <1>1, <1>6
  <2>2. u[1 + (i - 1)] = t[i - 1] /\ t[i - 1] = todo[(i - 1) + 1]
    BY <1>2, <1>4, <1>5, <2>1 DEF Joined
  <2> QED BY <2>1, <2>2
<1>9. u # <<>>
  BY <1>1, <1>7, NoStatement
<1>10. ASSUME NEW j \in 1..n PROVE u[m - n + j] = Inserts(list)[j]
  <2>1. m - n + j \in 2..m /\ m - n + j >= 1
    BY <1>1
  <2> QED BY <1>3, <1>8, <2>1
<1>11. ASSUME NEW i \in 1..m PROVE IsDelete(u[i]) <=> i = m - n
  <2>1. CASE i = 1
    BY <1>1, <1>7, <2>1
  <2>2. CASE i # 1
    BY <1>1, <1>3, <1>8, <2>2
  <2> QED BY <2>1, <2>2
<1>12. Shape(u, list)
  BY <1>3, <1>7, <1>9, <1>10, <1>11 DEF Shape, n
<1>13. Len(u) = m
  BY <1>7
<1> QED BY <1>12, <1>13, Zenon DEF u, v, m, t

\* Ids are not used again, and operations keep their definition.
Kept ==
  /\ lastOp \in Nat /\ lastOp' \in Nat /\ lastOp' >= lastOp
  /\ \A o \in ops' : o.id > lastOp \/ \E q \in ops : q.id = o.id /\ q.def = o.def

\* A step that leaves a definition's operations alone leaves its update where
\* it is.
LEMMA ListFrame ==
  ASSUME TableInv', NEW x, RequestOK(x), ListOK(x),
         x.alone /\ x.def \in Definitions => Left(x.def)' = Left(x.def)
  PROVE  ListOK(x)'
<1>1. x.def \in Definitions' => x.def \in Definitions
  <2>1. Definitions' = 1..Len(defs')
    BY SequenceParts DEF TableInv, Definitions
  <2>2. 0 \notin Definitions'
    BY <2>1
  <2> QED BY <2>2, Zenon DEF RequestOK
<1>2. ASSUME x.list # Null PROVE Shape(x.todo, x.list)'
  <2>1. Shape(x.todo, x.list)
    BY <1>2 DEF ListOK
  <2> QED BY <2>1 DEF Shape, IsSequence, Inserts, IsDelete
<1>3. ASSUME NEW k, x.alone, x.def \in Definitions, Written(x.def, x.list, k)
      PROVE  Written(x.def, x.list, k)'
  BY <1>3 DEF Written
<1> QED BY <1>1, <1>2, <1>3 DEF ListOK

\* The operation that a request enables stays in its definition.
LEMMA SetFrame ==
  ASSUME Kept, NEW x, SetOK(x)
  PROVE  SetOK(x)'
<1>1. ASSUME NEW i \in DOMAIN x.todo, x.todo[i].do = "set op"
      PROVE  x.todo[i].op \in 1..lastOp' /\ \A o \in ops' : o.id = x.todo[i].op => o.def = x.def
  <2> DEFINE k == x.todo[i].op
  <2>1. k \in 1..lastOp /\ \A o \in ops : o.id = k => o.def = x.def
    BY <1>1 DEF SetOK
  <2> HIDE DEF k
  <2>2. k \in 1..lastOp' /\ \A o \in ops' : o.id = k => o.def = x.def
    BY <2>1 DEF Kept
  <2> QED BY <2>2 DEF k
<1>2. Has(x, {"insert def"})' = Has(x, {"insert def"}) /\ Has(x, {"set op"})' = Has(x, {"set op"})
  BY DEF Has
<1> QED BY <1>1, <1>2 DEF SetOK

\* What is left of r after a statement, u, becomes what q has to do.
GoneOn(q, r, u) ==
  \/ u = <<>> /\ q.todo = <<>> /\ q.list = Null /\ q.clean = r.clean
  \/ u # <<>> /\ q.todo = u /\ q.list = r.list /\ q.def = r.def /\ q.clean = r.clean /\ q.alone = r.alone

\* Proceed by the fields of the request.
LEMMA ProceedFields ==
  ASSUME NEW r, DOMAIN r = RequestFields, NEW first
  PROVE  GoneOn(Proceed(r, first), r, first \o Tail(r.todo))
<1> DEFINE u == first \o Tail(r.todo)
           q == Proceed(r, first)
<1>1. q = IF u = <<>> THEN [NoRequest("ok") EXCEPT !.clean = r.clean] ELSE [r EXCEPT !.todo = u]
  BY DEF Proceed
<1> HIDE DEF u, q
<1>2. {"todo", "list", "def", "clean", "alone"} \subseteq DOMAIN r
  BY DEF RequestFields, NoRequest
<1>3. ASSUME u = <<>> PROVE GoneOn(q, r, u)
  BY <1>1, <1>3 DEF GoneOn, NoRequest
<1>4. ASSUME u # <<>> PROVE GoneOn(q, r, u)
  BY <1>1, <1>2, <1>4 DEF GoneOn
<1>5. GoneOn(q, r, u)
  BY <1>3, <1>4
<1> QED BY <1>5 DEF q, u

\* q is what an update r has left after a statement.
Onward(q, r) ==
  q.list # Null => /\ IsSequence(q.todo) /\ Shape(q.todo, q.list)
                   /\ q.list = r.list /\ q.def = r.def /\ q.clean = r.clean /\ q.alone = r.alone

\* An update goes on with its next statement.
LEMMA UpdateGoesOn ==
  ASSUME NEW r, DOMAIN r = RequestFields, IsSequence(r.todo), r.todo # <<>>,
         r.list # Null => Shape(r.todo, r.list)
  PROVE  /\ Onward(Proceed(r, <<>>), r)
         /\ Proceed(r, <<>>).list # Null => Len(Proceed(r, <<>>).todo) = Len(r.todo) - 1
<1> DEFINE q == Proceed(r, <<>>)
           t == Tail(r.todo)
<1>1. IsSequence(t) /\ Len(t) = Len(r.todo) - 1
  BY RestParts
<1>2. <<>> \o t = t
  BY <1>1, ConcatEmptySeq DEF IsSequence
<1>3. GoneOn(q, r, t)
  BY <1>2, ProceedFields, Zenon
<1>4. t # <<>> /\ r.list # Null => Shape(t, r.list)
  BY ShapeRest
<1> HIDE DEF q, t
<1>5. Onward(q, r) /\ (q.list # Null => Len(q.todo) = Len(r.todo) - 1)
  BY <1>1, <1>3, <1>4 DEF GoneOn, Onward
<1> QED BY <1>5 DEF q

\* It has to insert an action first.
LEMMA UpdateSeeds ==
  ASSUME NEW r, DOMAIN r = RequestFields, IsSequence(r.todo), r.todo # <<>>,
         r.list # Null => Shape(r.todo, r.list), NEW name,
         ~IsDelete(Head(r.todo)), ~IsInsert(Head(r.todo))
  PROVE  LET q == Proceed(r, <<SeedAction(name)>>)
         IN  Onward(q, r) /\ (q.list # Null => Len(q.todo) > Len(q.list))
<1> DEFINE x == SeedAction(name)
           q == Proceed(r, <<x>>)
           t == Tail(r.todo)
           u == <<x>> \o t
<1>1. ~IsDelete(x)
  BY DEF SeedAction, IsDelete
<1>2. GoneOn(q, r, u)
  BY ProceedFields, Zenon
<1>3. Head(r.todo) = r.todo[1]
  BY SequenceParts
<1>4. r.list # Null => /\ Len(r.todo) > Len(r.list) + 1
                       /\ Len(r.todo) \in Nat /\ Len(r.list) \in Nat
  BY <1>3, ShapeHead
<1> HIDE DEF x, q
<1>5. r.list # Null => Shape(u, r.list) /\ Len(u) = Len(r.todo)
  BY <1>1, <1>4, ShapeSeeded, Zenon
<1>6. IsSequence(u)
  <2>1. IsSequence(t) /\ IsSequence(<<x>>)
    BY RestParts, OneStatement
  <2> HIDE DEF t
  <2>2. Joined(u, <<x>>, t)
    BY <2>1, JoinParts, Zenon
  <2> HIDE DEF u
  <2> QED BY <2>2 DEF Joined
<1> HIDE DEF u
<1>7. Onward(q, r) /\ (q.list # Null => Len(q.todo) > Len(q.list))
  BY <1>2, <1>4, <1>5, <1>6 DEF GoneOn, Onward
<1> QED BY <1>7 DEF q, x

\* A request that goes on enables no other operation.
LEMMA SetGoesOn ==
  ASSUME NEW r, DOMAIN r = RequestFields, IsSequence(r.todo), r.todo # <<>>, SetOK(r),
         NEW first, SeedList(first)
  PROVE  SetOK(Proceed(r, first))
<1> DEFINE q == Proceed(r, first)
           u == first \o Tail(r.todo)
<1>1. IsSequence(first) /\ \A j \in DOMAIN first : first[j].do = "seed action"
  BY SeedListParts
<1>2. Proceeded(q, r, first)
  BY <1>1, ProceedParts, Zenon
<1>3. GoneOn(q, r, u)
  BY ProceedFields, Zenon
<1> HIDE DEF q, u
<1>4. \A i \in DOMAIN q.todo : /\ q.def = r.def
                               /\ \/ q.todo[i].do = "seed action"
                                  \/ \E j \in DOMAIN r.todo : q.todo[i] = r.todo[j]
  BY <1>1, <1>2, NoStatement DEF Proceeded
<1>5. r.list = Null => q.list = Null
  BY <1>3 DEF GoneOn
<1>6. \A x : Has(q, {x}) /\ x # "seed action" => Has(r, {x})
  BY <1>4 DEF Has
<1>7. Has(q, {"insert def"}) => ~Has(q, {"set op"}) /\ q.list = Null
  BY <1>5, <1>6 DEF SetOK
<1>8. \A i \in DOMAIN q.todo : q.todo[i].do = "set op" =>
        q.todo[i].op \in 1..lastOp /\ \A o \in ops : o.id = q.todo[i].op => o.def = q.def
  BY <1>4 DEF SetOK
<1>9. SetOK(q)
  BY <1>7, <1>8 DEF SetOK
<1> QED BY <1>9 DEF q

\* An update before its deletion, or one with a statement that failed.
Early(r) ==
  r.list # Null => /\ IsSequence(r.todo) /\ Shape(r.todo, r.list)
                   /\ Len(r.todo) > Len(r.list) \/ ~r.clean

\* It says nothing of the tables.
LEMMA EarlyList ==
  ASSUME NEW r, Early(r)
  PROVE  ListOK(r)'
<1>1. ASSUME r.list # Null PROVE Shape(r.todo, r.list)' /\ (Len(r.todo) <= Len(r.list) => ~r.clean)
  <2>1. Shape(r.todo, r.list) /\ IsSequence(r.todo) /\ (Len(r.todo) > Len(r.list) \/ ~r.clean)
    BY <1>1 DEF Early
  <2>2. Len(r.todo) \in Nat /\ Len(r.list) \in Nat
    BY <2>1, ShapeHead
  <2>3. Shape(r.todo, r.list)'
    BY <2>1 DEF Shape, IsSequence, Inserts, IsDelete
  <2> QED BY <2>1, <2>2, <2>3
<1> QED BY <1>1 DEF ListOK

\* One request becomes another one, and what that changes is its definition's.
LEMMA ReplaceMoves ==
  ASSUME ConnectorInv, TableInv', ReplaceInv, Kept, NEW p \in Admins, NEW r, ListOK(r)', SetOK(r)',
         \/ Become(p, r) /\ \A d \in Definitions : Left(d)' = Left(d)
         \/ BecomeAndDisturb(p, r) /\ \A d \in Definitions : d # admin[p].def => Left(d)' = Left(d)
  PROVE  ReplaceInv'
<1>1. ASSUME NEW q \in Admins PROVE ListOK(admin[q])' /\ SetOK(admin[q])'
  <2>1. RequestOK(admin[q]) /\ ListOK(admin[q]) /\ SetOK(admin[q]) /\ DOMAIN admin = Admins
    BY DEF ConnectorInv, RequestInv, ReplaceInv
  <2> DEFINE z == [admin[q] EXCEPT !.alone = FALSE]
  <2>2. \/ admin'[q] = r
        \/ admin'[q] = admin[q] /\ (admin[q].def \in Definitions =>
                                     Left(admin[q].def)' = Left(admin[q].def))
        \/ admin'[q] = z
    <3>1. CASE Become(p, r) /\ \A d \in Definitions : Left(d)' = Left(d)
      BY <2>1, <3>1, Zenon DEF Become
    <3>2. CASE BecomeAndDisturb(p, r) /\ \A d \in Definitions : d # admin[p].def => Left(d)' = Left(d)
      <4>1. admin'[q] = CASE q = p -> r
                          [] q # p /\ admin[q].def = admin[p].def -> z
                          [] OTHER -> admin[q]
        BY <3>2, Zenon DEF BecomeAndDisturb
      <4> HIDE DEF z
      <4> QED BY <3>2, <4>1, Zenon
    <3> QED BY <3>1, <3>2
  <2>3. PICK x : x = admin'[q]
    OBVIOUS
  <2>4. CASE admin'[q] = r
    <3>1. x = r
      BY <2>3, <2>4
    <3>2. ListOK(x)' /\ SetOK(x)'
      BY <3>1
    <3> QED BY <2>3, <3>2
  <2>5. CASE admin'[q] = admin[q] /\ (admin[q].def \in Definitions =>
                                       Left(admin[q].def)' = Left(admin[q].def))
    <3>1. x = admin[q]
      BY <2>3, <2>5
    <3>2. RequestOK(x) /\ ListOK(x) /\ SetOK(x) /\ (x.def \in Definitions => Left(x.def)' = Left(x.def))
      BY <2>1, <2>5, <3>1
    <3>3. ListOK(x)' /\ SetOK(x)'
      BY <3>2, ListFrame, SetFrame
    <3> QED BY <2>3, <3>3
  <2>6. CASE admin'[q] = z
    <3>1. x = z
      BY <2>3, <2>6
    <3>2. {"todo", "def", "list", "clean", "alone"} \subseteq DOMAIN admin[q]
      BY <2>1 DEF RequestOK, RequestFields, NoRequest
    <3>3. /\ x.alone = FALSE /\ x.todo = admin[q].todo /\ x.def = admin[q].def
          /\ x.list = admin[q].list
      BY <3>1, <3>2
    <3>4. SetOK(x)
      BY <2>1, <3>3 DEF SetOK, Has
    <3>5. RequestOK(x)
      BY <2>1, <3>1, DisturbedRequest
    <3>6. ListOK(x)
      BY <2>1, <3>3 DEF ListOK
    <3>7. ListOK(x)' /\ SetOK(x)'
      BY <3>3, <3>4, <3>5, <3>6, ListFrame, SetFrame
    <3> QED BY <2>3, <3>7
  <2> QED BY <2>2, <2>4, <2>5, <2>6
<1> QED BY <1>1 DEF ReplaceInv

\* The deletion is still to come.
Ahead(todo, list) == IsSequence(todo) /\ Shape(todo, list) /\ Len(todo) > Len(list)

\* An update that starts has its deletion and its inserts to come, last.
LEMMA UpdateShape ==
  ASSUME NEW b \in Bodies, b.ops # <<>>
  PROVE  Ahead(UpdateSteps(b), b.ops)
<1> DEFINE K == {"check builtin", "update def", "enable", "seed action", "read display"}
           c == Do("check builtin")
           d == [do |-> "update def", body |-> b]
           s == <<c, d>>
           e == IF b.enabled = Null THEN <<>> ELSE <<Enable(b.enabled, FALSE)>>
           a == IF b.enabled = TRUE THEN <<SeedStep(b)>> ELSE <<>>
           x == Do("delete ops")
           list == b.ops
           i == Inserts(list)
           v == <<x>> \o i
           u == (s \o e) \o a
           w == u \o v
<1>1. Statements(s, K)
  <2>1. c.do = "check builtin" /\ d.do = "update def"
    BY DEF Do
  <2> HIDE DEF c, d
  <2>2. IsSequence(s) /\ DOMAIN s = {1, 2} /\ s[1] = c /\ s[2] = d
    BY TwoStatements
  <2> HIDE DEF s
  <2> QED BY <2>1, <2>2 DEF Statements
<1>2. Statements(e, K)
  BY FewStatements DEF Enable
<1>3. SeedStep(b).do \in {"seed action", "read display"}
  BY DEF SeedStep, SeedAction, Do
<1>4. Statements(a, K)
  BY <1>3, FewStatements
<1> HIDE DEF K, s, e, a
<1>5. Statements(u, K)
  BY <1>1, <1>2, <1>4, JoinStatements
<1> HIDE DEF u
<1>6. IsSequence(u) /\ Len(u) \in Nat /\ DOMAIN u = 1..Len(u) /\ \A j \in DOMAIN u : ~IsDelete(u[j])
  BY <1>5, SequenceParts DEF Statements, K, IsDelete
<1>7. IsDelete(x)
  BY DEF x, Do, IsDelete
<1>8. UpdateSteps(b) = w
  BY DEF UpdateSteps, s, e, a, u
<1>9. IsSequence(list) /\ Len(list) \in Nat /\ Len(list) > 0 /\ DOMAIN list = 1..Len(list)
  BY BodiesAssumption, SequenceParts
<1>10. IsSequence(i) /\ Len(i) = Len(list) /\ DOMAIN i = 1..Len(list)
  <2>1. Statements(i, {"insert op"}) /\ Len(i) = Len(list)
    BY InsertStatements
  <2> HIDE DEF i
  <2> QED BY <2>1, SequenceParts DEF Statements
<1>11. \A j \in 1..Len(list) : ~IsDelete(i[j])
  BY <1>9 DEF Inserts, IsDelete
<1>12. list # <<>>
  OBVIOUS
<1> HIDE DEF x, list, i
<1>13. Joined(v, <<x>>, i) /\ IsSequence(<<x>>) /\ Len(<<x>>) = 1 /\ DOMAIN <<x>> = {1} /\ <<x>>[1] = x
  BY <1>10, OneStatement, JoinParts, Zenon
<1> DEFINE o == <<x>>
<1> HIDE DEF v, o
<1>14. /\ IsSequence(v) /\ Len(v) = Len(list) + 1 /\ DOMAIN v = 1..(Len(list) + 1)
       /\ v[1] = x /\ \A j \in 1..Len(list) : v[j + 1] = i[j]
  <2>1. Joined(v, o, i) /\ Len(o) = 1 /\ DOMAIN o = {1} /\ o[1] = x
    BY <1>13 DEF o
  <2>2. IsSequence(v) /\ Len(v) = Len(list) + 1 /\ DOMAIN v = 1..(Len(list) + 1) /\ v[1] = x
    BY <1>9, <1>10, <2>1 DEF Joined
  <2>3. \A j \in 1..Len(list) : v[1 + j] = i[j]
    BY <1>10, <2>1 DEF Joined
  <2>4. \A j \in 1..Len(list) : 1 + j = j + 1
    BY <1>9
  <2> QED BY <2>2, <2>3, <2>4
<1>15. Joined(w, u, v)
  BY <1>6, <1>14, JoinParts, Zenon
<1> DEFINE m == Len(u)
           n == Len(list)
<1> HIDE DEF w, m, n
<1>16. /\ IsSequence(w) /\ Len(w) = m + (n + 1) /\ DOMAIN w = 1..(m + (n + 1))
       /\ \A j \in 1..m : w[j] = u[j]
       /\ \A j \in 1..(n + 1) : w[m + j] = v[j]
       /\ m \in Nat /\ n \in Nat /\ n > 0
  BY <1>6, <1>9, <1>14, <1>15 DEF Joined, m, n
<1>17. ASSUME NEW j \in 1..n PROVE w[m + (n + 1) - n + j] = i[j]
  <2>1. m + (n + 1) - n + j = m + (j + 1) /\ j + 1 \in 1..(n + 1)
    BY <1>16
  <2> QED BY <1>14, <1>16, <2>1 DEF n
<1>18. ASSUME NEW j \in 1..(m + (n + 1)) PROVE IsDelete(w[j]) <=> j = m + (n + 1) - n
  <2>1. CASE j \in 1..m
    <3>1. ~IsDelete(w[j])
      BY <1>6, <1>16, <2>1 DEF m
    <3> QED BY <1>16, <2>1, <3>1
  <2>2. CASE j = m + 1
    <3>1. w[m + 1] = v[1]
      BY <1>16
    <3> QED BY <1>7, <1>14, <1>16, <2>2, <3>1
  <2>3. CASE j \in (m + 2)..(m + (n + 1))
    <3>1. j - m \in 1..(n + 1) /\ j - m - 1 \in 1..n /\ m + (j - m) = j /\ (j - m - 1) + 1 = j - m
      BY <1>16, <2>3
    <3>2. w[j] = v[j - m] /\ v[j - m] = i[j - m - 1]
      BY <1>14, <1>16, <3>1 DEF n
    <3>3. ~IsDelete(w[j])
      BY <1>11, <3>1, <3>2 DEF n
    <3> QED BY <1>16, <2>3, <3>3
  <2> QED BY <1>16, <2>1, <2>2, <2>3
<1>19. w # <<>>
  BY <1>16, SequenceParts
<1>20. Shape(w, list) /\ Len(w) > Len(list)
  <2>1. Len(w) > n
    BY <1>16
  <2>2. /\ \A j \in 1..n : Len(w) - n + j >= 1 => w[Len(w) - n + j] = i[j]
        /\ \A j \in DOMAIN w : IsDelete(w[j]) <=> j = Len(w) - n
    BY <1>16, <1>17, <1>18
  <2> QED BY <1>9, <1>12, <1>19, <2>1, <2>2, Zenon DEF Shape, n, i
<1>21. Ahead(w, list)
  BY <1>16, <1>20 DEF Ahead
<1> QED BY <1>8, <1>21, Zenon DEF list

\* A request becomes another one that has nothing to say of the operations,
\* and they stay.
LEMMA QuietMove ==
  ASSUME ConnectorInv, TableInv', ReplaceInv, UNCHANGED <<ops, lastOp>>,
         NEW p \in Admins, NEW r, Early(r), SetOK(r), Become(p, r)
  PROVE  ReplaceInv'
<1>1. Kept
  BY DEF Kept, ConnectorInv, TableInv
<1>2. \A d \in Definitions : Left(d)' = Left(d)
  BY DEF Left
<1>3. ListOK(r)' /\ SetOK(r)'
  BY <1>1, EarlyList, SetFrame
<1> QED BY <1>1, <1>2, <1>3, ReplaceMoves

\* A request that starts.
LEMMA ReplaceStarts ==
  ASSUME ConnectorInv, TableInv', ReplaceInv, NEW p \in Admins, AdminCall(p)
  PROVE  ReplaceInv'
<1>0. ASSUME NEW r, Early(r), SetOK(r), Become(p, r), UNCHANGED <<ops, lastOp>> PROVE ReplaceInv'
  BY <1>0, QuietMove
<1>1. ASSUME NEW todo, NEW d, NEW list, Request(p, todo, d, list),
             list # Null => Ahead(todo, list),
             \A i \in DOMAIN todo : todo[i].do = "set op" =>
               todo[i].op \in 1..lastOp /\ \A o \in ops : o.id = todo[i].op => o.def = d,
             \A i \in DOMAIN todo : todo[i].do = "insert def" =>
               list = Null /\ \A j \in DOMAIN todo : todo[j].do # "set op"
      PROVE  ReplaceInv'
  <2> DEFINE r == [NoRequest("none") EXCEPT !.todo = todo, !.def = d, !.list = list]
  <2>1. r.todo = todo /\ r.def = d /\ r.list = list
    BY DEF NoRequest
  <2>2. Become(p, r) /\ UNCHANGED <<ops, lastOp>>
    BY <1>1 DEF Request, Become, tables
  <2> HIDE DEF r
  <2>3. Early(r)
    BY <1>1, <2>1 DEF Early, Ahead
  <2>4. SetOK(r)
    BY <1>1, <2>1 DEF SetOK, Has
  <2> QED BY <1>0, <2>2, <2>3, <2>4
<1>2. ASSUME NEW todo, NEW d, NEW kinds, Request(p, todo, d, Null), Statements(todo, kinds),
             "set op" \notin kinds
      PROVE  ReplaceInv'
  BY <1>1, <1>2 DEF Statements
<1>3. ASSUME NEW b \in Bodies, createCustomConnector(p, b) PROVE ReplaceInv'
  <2>1. Request(p, CreateSteps(b), 0, Null)
    BY <1>3 DEF createCustomConnector
  <2>2. "set op" \notin {"insert def", "insert op", "enable", "seed action"}
    OBVIOUS
  <2> QED BY <1>2, <2>1, <2>2, CreateStatements
<1>4. ASSUME NEW b \in Bodies, NEW d \in Definitions, updateCustomConnector(p, d, b)
      PROVE  ReplaceInv'
  <2> DEFINE list == IF b.ops = <<>> THEN Null ELSE b.ops
             todo == UpdateSteps(b)
  <2>1. Request(p, todo, d, list)
    BY <1>4 DEF updateCustomConnector
  <2>2. list # Null => Ahead(todo, list)
    BY UpdateShape
  <2>3. \A i \in DOMAIN todo : todo[i].do \notin {"set op", "insert def"}
    <3>1. Statements(todo, {"check builtin", "update def", "enable", "seed action",
                            "read display", "delete ops", "insert op"})
      BY UpdateStatements
    <3> HIDE DEF todo
    <3> QED BY <3>1 DEF Statements
  <2> HIDE DEF list, todo
  <2> QED BY <1>1, <2>1, <2>2, <2>3
<1>5. ASSUME NEW c \in ConnectorIds, NEW on, putTenantConnector(p, c, on)
      PROVE  ReplaceInv'
  <2> DEFINE K == {"enable", "read display"}
             x == Enable(on, TRUE)
             y == Do("read display")
             a == IF on THEN <<y>> ELSE <<>>
  <2>1. x.do \in K \ {"insert op"} /\ y.do \in K \ {"insert op"} /\ "set op" \notin K
    BY DEF Enable, Do
  <2>2. Request(p, <<x>> \o a, c, Null)
    BY <1>5 DEF putTenantConnector
  <2> HIDE DEF x, y, K
  <2>3. Statements(<<x>>, K) /\ Statements(<<y>>, K) /\ Statements(<<>>, K)
    BY <2>1, FewStatements, Zenon
  <2>4. Statements(a, K)
    BY <2>3
  <2> HIDE DEF a
  <2>5. Statements(<<x>> \o a, K)
    BY <2>3, <2>4, JoinStatements, Zenon
  <2> QED BY <1>2, <2>1, <2>2, <2>5
<1>6. ASSUME NEW o \in ops, NEW on, putConnectorAction(p, o.def, o.id, on)
      PROVE  ReplaceInv'
  <2> DEFINE x == [do |-> "check op", op |-> o.id]
             y == [do |-> "set op", op |-> o.id, on |-> on]
  <2>1. /\ x.do \notin {"set op", "insert def"} /\ y.do # "insert def" /\ y.op = o.id
        /\ Request(p, <<x, y>>, o.def, Null)
    BY <1>6 DEF putConnectorAction
  <2>2. o.id \in 1..lastOp /\ \A o1 \in ops : o1.id = o.id => o1.def = o.def
    BY DEF ConnectorInv, TableInv
  <2> HIDE DEF x, y
  <2> DEFINE w == <<x, y>>
  <2>3. DOMAIN w = {1, 2} /\ w[1] = x /\ w[2] = y
    BY TwoStatements, Zenon
  <2>4. Request(p, w, o.def, Null)
    BY <2>1
  <2> HIDE DEF w
  <2>5. /\ \A i \in DOMAIN w : w[i].do = "set op" =>
             w[i].op \in 1..lastOp /\ \A o1 \in ops : o1.id = w[i].op => o1.def = o.def
        /\ \A i \in DOMAIN w : w[i].do # "insert def"
    BY <2>1, <2>2, <2>3
  <2> QED BY <1>1, <2>4, <2>5
<1>7. ASSUME NEW name, upsertConnector(p, name) PROVE ReplaceInv'
  <2> DEFINE c == [do |-> "upsert registry", name |-> name]
             K == {"upsert registry"}
  <2>1. c.do \in K \ {"insert op"} /\ "set op" \notin K
    OBVIOUS
  <2>2. Request(p, <<c>>, 0, Null)
    BY <1>7 DEF upsertConnector
  <2> HIDE DEF c, K
  <2>3. Statements(<<c>>, K)
    BY <2>1, FewStatements, Zenon
  <2> QED BY <1>2, <2>1, <2>2, <2>3
<1> QED BY <1>3, <1>4, <1>5, <1>6, <1>7 DEF AdminCall

\* A statement other than the deletion and the inserts is executed.
LEMMA PlainRequest ==
  ASSUME ConnectorInv, ReplaceInv, NEW p \in Admins, admin[p].todo # <<>>,
         ~IsDelete(Head(admin[p].todo)), ~IsInsert(Head(admin[p].todo)),
         NEW first, SeedList(first)
  PROVE  Early(Proceed(admin[p], first)) /\ SetOK(Proceed(admin[p], first))
<1> DEFINE r == admin[p]
           q == Proceed(r, first)
<1>1. /\ DOMAIN r = RequestFields /\ IsSequence(r.todo) /\ SetOK(r)
      /\ r.list # Null => Shape(r.todo, r.list)
  BY DEF ConnectorInv, RequestInv, RequestOK, ReplaceInv, ListOK
<1>2. r.todo # <<>> /\ ~IsDelete(Head(r.todo)) /\ ~IsInsert(Head(r.todo))
  OBVIOUS
<1> HIDE DEF r
<1>3. SetOK(q)
  BY <1>1, <1>2, SetGoesOn
<1>4. Onward(q, r) /\ (q.list # Null => Len(q.todo) > Len(q.list))
  <2>1. ASSUME first = <<>> PROVE Onward(q, r) /\ (q.list # Null => Len(q.todo) > Len(q.list))
    <3>1. Onward(q, r) /\ (q.list # Null => Len(q.todo) = Len(r.todo) - 1)
      BY <1>1, <1>2, <2>1, UpdateGoesOn, Zenon
    <3>2. Head(r.todo) = r.todo[1]
      BY <1>1, <1>2, SequenceParts
    <3>3. r.list # Null => /\ Len(r.todo) > Len(r.list) + 1
                           /\ Len(r.todo) \in Nat /\ Len(r.list) \in Nat
      BY <1>1, <1>2, <3>2, ShapeHead
    <3> HIDE DEF q
    <3> QED BY <3>1, <3>3 DEF Onward
  <2>2. ASSUME NEW name, first = <<SeedAction(name)>>
        PROVE  Onward(q, r) /\ (q.list # Null => Len(q.todo) > Len(q.list))
    BY <1>1, <1>2, <2>2, UpdateSeeds, Zenon
  <2> QED BY <2>1, <2>2 DEF SeedList
<1> HIDE DEF q
<1>5. Early(q)
  BY <1>4 DEF Onward, Early
<1> QED BY <1>3, <1>5 DEF q, r

\* A request that has ended has nothing to do.
LEMMA EndedEarly ==
  ASSUME NEW x
  PROVE  Early(NoRequest(x)) /\ SetOK(NoRequest(x))
<1>1. NoRequest(x).todo = <<>> /\ NoRequest(x).list = Null
  BY DEF NoRequest
<1> QED BY <1>1, NoStatement DEF Early, SetOK, Has

\* A statement that fails, when the error is dropped.
LEMMA FailedEarly ==
  ASSUME ConnectorInv, ReplaceInv, NEW p \in Admins, StatementFails(p)
  PROVE  \E q : Early(q) /\ SetOK(q) /\ Become(p, q)
<1> DEFINE r == admin[p]
           b == r.read /\ ~Doing(p, "check builtin")
           f == [r EXCEPT !.clean = FALSE, !.read = b]
           q == Proceed(f, <<>>)
<1>1. /\ DOMAIN r = RequestFields /\ IsSequence(r.todo) /\ SetOK(r) /\ r.todo # <<>>
      /\ r.list # Null => Shape(r.todo, r.list)
  BY DEF ConnectorInv, RequestInv, RequestOK, ReplaceInv, ListOK, StatementFails
<1>2. Become(p, q)
  BY DEF StatementFails
<1>3. {"todo", "def", "list", "read", "clean"} \subseteq DOMAIN r
  BY <1>1 DEF RequestFields, NoRequest
<1> HIDE DEF b
<1>4. /\ DOMAIN f = RequestFields /\ f.todo = r.todo /\ f.def = r.def /\ f.list = r.list
      /\ f.clean = FALSE
  BY <1>1, <1>3
<1> HIDE DEF f, r
<1>5. SetOK(f)
  BY <1>1, <1>4 DEF SetOK, Has
<1>6. SetOK(q)
  BY <1>1, <1>4, <1>5, SetGoesOn DEF SeedList
<1>7. Onward(q, f)
  BY <1>1, <1>4, UpdateGoesOn
<1> HIDE DEF q
<1>8. Early(q)
  BY <1>4, <1>7 DEF Onward, Early
<1> QED BY <1>2, <1>6, <1>8

\* The statements that leave the operations alone, and the ends of requests.
LEMMA QuietStep ==
  ASSUME ConnectorInv, TableInv', ReplaceInv, NEW p \in Admins,
         \/ InsertDefinition(p) \/ CheckBuiltin(p) \/ UpdateDefinition(p) \/ EnableConnector(p)
         \/ ReadDisplay(p) \/ InsertAction(p) \/ CheckOperation(p) \/ UpsertRegistry(p)
         \/ StatementFails(p) \/ RequestEnds(p)
  PROVE  ReplaceInv'
<1>1. UNCHANGED <<ops, lastOp>>
  BY DEF InsertDefinition, CheckBuiltin, UpdateDefinition, EnableConnector, ReadDisplay,
         InsertAction, CheckOperation, UpsertRegistry, StatementFails, RequestEnds, tables
<1>2. ASSUME NEW r, Early(r), SetOK(r), Become(p, r) PROVE ReplaceInv'
  BY <1>1, <1>2, QuietMove
<1>3. ASSUME Become(p, NoRequest("refused")) PROVE ReplaceInv'
  BY <1>2, <1>3, EndedEarly
<1>4. ASSUME NEW what, Doing(p, what), what \notin {"delete ops", "insert op"},
             NEW first, SeedList(first)
      PROVE  Early(Proceed(admin[p], first)) /\ SetOK(Proceed(admin[p], first))
  BY <1>4, PlainRequest DEF Doing, IsDelete, IsInsert
<1>5. ASSUME NEW what, Doing(p, what), what \notin {"delete ops", "insert op"}, Become(p, Executed(p))
      PROVE  ReplaceInv'
  BY <1>2, <1>4, <1>5 DEF Executed, SeedList
<1>6. CASE EnableConnector(p) \/ InsertAction(p) \/ UpsertRegistry(p)
  BY <1>5, <1>6 DEF EnableConnector, InsertAction, UpsertRegistry
<1>7. CASE CheckBuiltin(p) \/ CheckOperation(p)
  BY <1>3, <1>5, <1>7 DEF CheckBuiltin, CheckOperation
<1>8. CASE UpdateDefinition(p)
  BY <1>3, <1>5, <1>8 DEF UpdateDefinition
<1>9. CASE RequestEnds(p)
  BY <1>3, <1>9 DEF RequestEnds
<1>10. CASE ReadDisplay(p)
  <2>1. PICK first : SeedList(first) /\ Become(p, Proceed(admin[p], first))
    BY <1>10 DEF ReadDisplay, SeedList
  <2>2. Doing(p, "read display")
    BY <1>10 DEF ReadDisplay
  <2> QED BY <1>2, <1>4, <2>1, <2>2
<1>11. CASE StatementFails(p)
  BY <1>2, <1>11, FailedEarly
<1>12. CASE InsertDefinition(p)
  <2> DEFINE q == Executed(p)
             n == IF q.todo = <<>> THEN 0 ELSE Len(defs) + 1
             f == [q EXCEPT !.def = n]
  <2>1. CASE Become(p, NoRequest("refused"))
    BY <1>3, <2>1
  <2>2. CASE Become(p, f)
    <3>1. Doing(p, "insert def")
      BY <1>12 DEF InsertDefinition
    <3>2. SetOK(q)
      BY <1>4, <3>1 DEF Executed, SeedList
    <3>3. admin[p].list = Null /\ ~Has(admin[p], {"set op"})
      <4>1. RequestOK(admin[p]) /\ SetOK(admin[p])
        BY DEF ConnectorInv, RequestInv, ReplaceInv
      <4>2. Has(admin[p], {"insert def"})
        BY <3>1, <4>1, SequenceParts DEF Doing, RequestOK, Has
      <4> QED BY <4>1, <4>2 DEF SetOK
    <3>4. /\ DOMAIN q = RequestFields /\ q.list = Null
          /\ \A i \in DOMAIN q.todo : \E j \in DOMAIN admin[p].todo : q.todo[i] = admin[p].todo[j]
      <4> DEFINE r == admin[p]
                 t == <<>> \o Tail(r.todo)
      <4>1. DOMAIN r = RequestFields /\ IsSequence(r.todo) /\ r.todo # <<>>
        BY <3>1 DEF ConnectorInv, RequestInv, RequestOK, Doing
      <4>2. Proceeded(q, r, <<>>)
        BY <4>1, NoStatement, ProceedParts, Zenon DEF Executed
      <4>3. GoneOn(q, r, t)
        BY <4>1, ProceedFields, Zenon DEF Executed
      <4> HIDE DEF q, t
      <4> QED BY <3>3, <4>2, <4>3, NoStatement DEF Proceeded, GoneOn
    <3>5. {"todo", "def", "list"} \subseteq DOMAIN q
      BY <3>4 DEF RequestFields, NoRequest
    <3>6. f.todo = q.todo /\ f.list = q.list
      BY <3>5
    <3> HIDE DEF f, q
    <3>7. Early(f)
      BY <3>4, <3>6 DEF Early
    <3>8. SetOK(f)
      BY <3>3, <3>4, <3>6 DEF SetOK, Has
    <3> QED BY <1>2, <2>2, <3>7, <3>8
  <2> QED BY <1>12, <2>1, <2>2 DEF InsertDefinition
<1> QED BY <1>6, <1>7, <1>8, <1>9, <1>10, <1>11, <1>12

\* An insert of an update adds the next operation of its list.
LEMMA InsertWrites ==
  ASSUME TableInv, NEW d \in Definitions, NEW list, NEW k \in Nat, Written(d, list, k),
         NEW path, NEW scopes, NEW on,
         path = list[k + 1].path, on = (list[k + 1].enabled # FALSE),
         ops' = WithOperation(d, path, scopes, on, "admin")
  PROVE  Written(d, list, k + 1)'
<1> DEFINE x == [id |-> lastOp + 1, def |-> d, path |-> path, scopes |-> scopes,
                 enabled |-> on, by |-> "admin"]
           L == Left(d)
           R(i) == [path |-> list[i].path, on |-> list[i].enabled # FALSE]
           S(o) == [path |-> o.path, on |-> o.enabled]
<1>1. ops' = ops \cup {x}
  BY DEF WithOperation
<1>2. x.id = lastOp + 1 /\ x.def = d /\ x.path = path /\ x.enabled = on /\ x.by = "admin"
  OBVIOUS
<1> HIDE DEF x
<1>3. x \notin L
  <2>1. lastOp \in Nat /\ \A o \in ops : o.id \in 1..lastOp
    BY DEF TableInv
  <2> QED BY <1>2, <2>1 DEF Left
<1>4. Left(d)' = L \cup {x}
  BY <1>1, <1>2 DEF Left
<1>5. IsFiniteSet(L) /\ Cardinality(L) = k /\ {S(o) : o \in L} = {R(i) : i \in 1..k}
  BY DEF Written
<1> HIDE DEF L
<1>6. IsFiniteSet(L \cup {x}) /\ Cardinality(L \cup {x}) = k + 1
  BY <1>3, <1>5, FS_AddElement
<1>7. S(x) = R(k + 1)
  BY <1>2
<1>8. 1..(k + 1) = 1..k \cup {k + 1}
  OBVIOUS
<1> HIDE DEF R, S
<1>9. {S(o) : o \in L \cup {x}} = {R(i) : i \in 1..(k + 1)}
  <2>1. {S(o) : o \in L \cup {x}} = {S(o) : o \in L} \cup {S(x)}
    OBVIOUS
  <2>2. {R(i) : i \in 1..k \cup {k + 1}} = {R(i) : i \in 1..k} \cup {R(k + 1)}
    OBVIOUS
  <2> QED BY <1>5, <1>7, <1>8, <2>1, <2>2
<1>10. {[path |-> o.path, on |-> o.enabled] : o \in Left(d)'}
         = {[path |-> list[i].path, on |-> list[i].enabled # FALSE] : i \in 1..(k + 1)}
  BY <1>4, <1>9 DEF R, S
<1> QED BY <1>4, <1>6, <1>10 DEF Written

\* Where an insert of an update stands in its list.
LEMMA NextInsert ==
  ASSUME NEW r, IsSequence(r.todo), Shape(r.todo, r.list), Len(r.todo) <= Len(r.list)
  PROVE  LET k == Len(r.list) - Len(r.todo)
             s == Head(r.todo)
         IN  /\ k \in Nat /\ k + 1 \in 1..Len(r.list)
             /\ s.path = r.list[k + 1].path /\ s.on = (r.list[k + 1].enabled # FALSE)
<1> DEFINE m == Len(r.todo)
           n == Len(r.list)
<1>1. /\ m \in Nat /\ m > 0 /\ n \in Nat /\ n > 0 /\ DOMAIN r.list = 1..n
      /\ r.todo[1] = Inserts(r.list)[n - m + 1]
  BY ShapeHead
<1>2. Head(r.todo) = r.todo[1]
  BY SequenceParts DEF Shape
<1>3. m <= n
  OBVIOUS
<1> HIDE DEF m, n
<1>4. n - m \in Nat /\ n - m + 1 \in 1..n
  BY <1>1, <1>3
<1>5. \A i \in 1..n : /\ Inserts(r.list)[i].path = r.list[i].path
                      /\ Inserts(r.list)[i].on = (r.list[i].enabled # FALSE)
  BY <1>1 DEF Inserts
<1>6. /\ Head(r.todo).path = r.list[n - m + 1].path
      /\ Head(r.todo).on = (r.list[n - m + 1].enabled # FALSE)
  BY <1>1, <1>2, <1>4, <1>5
<1> QED BY <1>4, <1>6 DEF m, n

\* The facts about the request that writes.
LEMMA WriterParts ==
  ASSUME ConnectorInv, ReplaceInv, NEW p \in Admins, admin[p].todo # <<>>
  PROVE  /\ DOMAIN admin[p] = RequestFields /\ IsSequence(admin[p].todo)
         /\ admin[p].list # Null => Shape(admin[p].todo, admin[p].list)
         /\ Onward(Executed(p), admin[p]) /\ SetOK(Executed(p))
         /\ Executed(p).list # Null => Len(Executed(p).todo) = Len(admin[p].todo) - 1
<1>1. /\ DOMAIN admin[p] = RequestFields /\ IsSequence(admin[p].todo)
      /\ admin[p].list # Null => Shape(admin[p].todo, admin[p].list)
      /\ SetOK(admin[p])
  BY DEF ConnectorInv, RequestInv, RequestOK, ReplaceInv, ListOK
<1>2. SetOK(Executed(p))
  BY <1>1, SetGoesOn DEF Executed, SeedList
<1>3. /\ Onward(Executed(p), admin[p])
      /\ Executed(p).list # Null => Len(Executed(p).todo) = Len(admin[p].todo) - 1
  BY <1>1, UpdateGoesOn, Zenon DEF Executed
<1> QED BY <1>1, <1>2, <1>3

\* The deletion.
LEMMA DeleteReplaces ==
  ASSUME ConnectorInv, TableInv', ReplaceInv, NEW p \in Admins, DeleteOperations(p)
  PROVE  ReplaceInv'
<1> DEFINE r == admin[p]
           q == Executed(p)
           f == [q EXCEPT !.alone = TRUE]
<1>1. r.todo # <<>> /\ IsDelete(Head(r.todo))
  BY DEF DeleteOperations, Doing, IsDelete
<1>2. /\ DOMAIN r = RequestFields /\ IsSequence(r.todo)
      /\ r.list # Null => Shape(r.todo, r.list)
      /\ Onward(q, r) /\ SetOK(q)
      /\ q.list # Null => Len(q.todo) = Len(r.todo) - 1
  BY <1>1, WriterParts
<1>3. /\ ops' = {o \in ops : o.def # r.def} /\ lastOp' = lastOp
      /\ BecomeAndDisturb(p, f)
  BY DEF DeleteOperations
<1>4. DOMAIN q = RequestFields
  BY <1>1, <1>2, NoStatement, ProceedParts DEF Executed, Proceeded
<1>5. {"todo", "def", "list", "clean", "alone"} \subseteq DOMAIN q
  BY <1>4 DEF RequestFields, NoRequest
<1> HIDE DEF q
<1>6. f.todo = q.todo /\ f.list = q.list /\ f.def = q.def /\ f.clean = q.clean
  BY <1>5
<1> HIDE DEF f
<1>7. Kept
  BY <1>3 DEF Kept, ConnectorInv, TableInv
<1>8. \A d \in Definitions : d # r.def => Left(d)' = Left(d)
  BY <1>3 DEF Left
<1>9. PICK x : x = f
  OBVIOUS
<1>10. /\ SetOK(x)
       /\ x.list # Null => /\ IsSequence(x.todo) /\ Shape(x.todo, x.list)
                           /\ x.list = r.list /\ x.def = r.def /\ Len(x.todo) = Len(r.todo) - 1
  <2>1. SetOK(x)
    BY <1>2, <1>6, <1>9 DEF SetOK, Has
  <2> QED BY <1>2, <1>6, <1>9, <2>1 DEF Onward
<1>11. SetOK(x)'
  BY <1>7, <1>10, SetFrame
<1>12. ListOK(x)'
  <2> SUFFICES ASSUME x.list # Null PROVE ListOK(x)'
    BY DEF ListOK
  <2>1. Shape(r.todo, r.list) /\ Len(r.todo) = Len(r.list) + 1 /\ Len(r.list) \in Nat
    <3>1. Head(r.todo) = r.todo[1]
      BY <1>1, <1>2, SequenceParts
    <3> QED BY <1>1, <1>2, <1>10, <3>1, ShapeHead
  <2>2. Len(x.list) - Len(x.todo) = 0
    BY <1>10, <2>1
  <2>3. Left(x.def)' = {}
    BY <1>3, <1>10 DEF Left
  <2>4. Written(x.def, x.list, 0)'
    <3> DEFINE L == x.list
    <3> HIDE DEF L
    <3>1. {[path |-> L[i].path, on |-> L[i].enabled # FALSE] : i \in 1..0} = {}
      OBVIOUS
    <3> QED BY <2>3, <3>1, FS_EmptySet DEF Written, L
  <2>5. Shape(x.todo, x.list)'
    BY <1>10 DEF Shape, IsSequence, Inserts, IsDelete
  <2> QED BY <2>2, <2>4, <2>5 DEF ListOK
<1>13. BecomeAndDisturb(p, x)
  BY <1>3, <1>9
<1> QED BY <1>7, <1>8, <1>11, <1>12, <1>13, ReplaceMoves

\* What an insert leaves of its update: the operation is written.
LEMMA InsertList ==
  ASSUME ConnectorInv, TableInv', ReplaceInv, NEW p \in Admins, InsertOperation(p), NEW x, x = Executed(p)
  PROVE  ListOK(x)'
<1> DEFINE r == admin[p]
           s == Head(r.todo)
<1> SUFFICES ASSUME x.list # Null PROVE ListOK(x)'
  BY DEF ListOK
<1>1. r.todo # <<>> /\ IsInsert(Head(r.todo)) /\ UNCHANGED defs
  BY DEF InsertOperation, Doing, IsInsert
<1>2. /\ IsSequence(r.todo) /\ Shape(r.todo, r.list)
      /\ IsSequence(x.todo) /\ Shape(x.todo, x.list) /\ Len(x.todo) = Len(r.todo) - 1
      /\ x.list = r.list /\ x.def = r.def /\ x.clean = r.clean /\ x.alone = r.alone
  <2>1. /\ r.list # Null => Shape(r.todo, r.list)
        /\ IsSequence(r.todo) /\ Onward(x, r)
        /\ x.list # Null => Len(x.todo) = Len(r.todo) - 1
    BY <1>1, WriterParts
  <2> QED BY <2>1 DEF Onward
<1>3. Shape(x.todo, x.list)'
  BY <1>2 DEF Shape, IsSequence, Inserts, IsDelete
<1>4. ops' = WithOperation(r.def, s.path, s.scopes, s.on, "admin")
  BY DEF InsertOperation
<1> DEFINE m == Len(r.todo)
           n == Len(r.list)
<1>5. m \in Nat /\ n \in Nat /\ m # n + 1
  <2>1. Head(r.todo) = r.todo[1]
    BY <1>1, <1>2, SequenceParts
  <2> QED BY <1>1, <1>2, <2>1, ShapeHead
<1>6. ASSUME x.alone, x.clean, x.def \in Definitions, Len(x.todo) <= Len(x.list)
      PROVE  Written(x.def, x.list, Len(x.list) - Len(x.todo))'
  <2>1. m <= n
    BY <1>2, <1>5, <1>6
  <2>2. PICK k : k = n - m
    OBVIOUS
  <2>3. /\ k \in Nat /\ s.path = x.list[k + 1].path /\ s.on = (x.list[k + 1].enabled # FALSE)
    BY <1>2, <2>1, <2>2, NextInsert
  <2>4. Written(x.def, x.list, k)
    <3>1. ListOK(r)
      BY DEF ReplaceInv
    <3> QED BY <1>2, <1>6, <2>1, <2>2, <3>1 DEF ListOK
  <2>5. Written(x.def, x.list, k + 1)'
    <3>1. PICK path, scopes, on : path = s.path /\ scopes = s.scopes /\ on = s.on
      OBVIOUS
    <3>2. ops' = WithOperation(x.def, path, scopes, on, "admin")
      BY <1>2, <1>4, <3>1
    <3>3. path = x.list[k + 1].path /\ on = (x.list[k + 1].enabled # FALSE)
      BY <2>3, <3>1
    <3>4. TableInv
      BY DEF ConnectorInv
    <3> QED BY <1>6, <2>3, <2>4, <3>2, <3>3, <3>4, InsertWrites
  <2>6. Len(x.list) - Len(x.todo) = k + 1
    BY <1>2, <1>5, <2>2
  <2> QED BY <2>5, <2>6
<1>7. Definitions' = Definitions
  BY <1>1 DEF Definitions
<1> QED BY <1>3, <1>6, <1>7 DEF ListOK

\* An insertion touches no other definition.
LEMMA InsertKeeps ==
  ASSUME ConnectorInv, NEW d, NEW path, NEW scopes, NEW on, NEW by,
         ops' = WithOperation(d, path, scopes, on, by),
         lastOp' = IF ops' = ops THEN lastOp ELSE lastOp + 1
  PROVE  Kept /\ \A e \in Definitions : e # d => Left(e)' = Left(e)
<1> DEFINE x == [id |-> lastOp + 1, def |-> d, path |-> path, scopes |-> scopes,
                 enabled |-> on, by |-> by]
<1>1. ops' \in {ops, ops \cup {x}}
  BY DEF WithOperation
<1>2. x.id = lastOp + 1 /\ x.def = d
  OBVIOUS
<1> HIDE DEF x
<1>3. lastOp \in Nat
  BY DEF ConnectorInv, TableInv
<1>4. lastOp' \in Nat /\ lastOp' >= lastOp
  BY <1>3
<1>5. \A o \in ops' : o.id > lastOp \/ \E q \in ops : q.id = o.id /\ q.def = o.def
  BY <1>1, <1>2, <1>3
<1>6. \A e \in Definitions : e # d => Left(e)' = Left(e)
  BY <1>1, <1>2 DEF Left
<1> QED BY <1>3, <1>4, <1>5, <1>6 DEF Kept

\* The insertion of an operation.
LEMMA InsertReplaces ==
  ASSUME ConnectorInv, TableInv', ReplaceInv, NEW p \in Admins, InsertOperation(p)
  PROVE  ReplaceInv'
<1>1. PICK x : x = Executed(p)
  OBVIOUS
<1>2. ListOK(x)'
  BY <1>1, InsertList
<1>3. PICK path, scopes, on : ops' = WithOperation(admin[p].def, path, scopes, on, "admin")
  BY DEF InsertOperation
<1>4. lastOp' = (IF ops' = ops THEN lastOp ELSE lastOp + 1) /\ BecomeAndDisturb(p, x) /\ admin[p].todo # <<>>
  BY <1>1 DEF InsertOperation, Doing
<1>5. Kept /\ \A d \in Definitions : d # admin[p].def => Left(d)' = Left(d)
  BY <1>3, <1>4, InsertKeeps
<1>6. SetOK(x)'
  <2>1. SetOK(x)
    BY <1>1, <1>4, WriterParts
  <2> QED BY <1>5, <2>1, SetFrame
<1> QED BY <1>2, <1>4, <1>5, <1>6, ReplaceMoves

\* The enabling of an operation, which is the request's definition's.
LEMMA SetReplaces ==
  ASSUME ConnectorInv, TableInv', ReplaceInv, NEW p \in Admins, SetOperation(p)
  PROVE  ReplaceInv'
<1> DEFINE r == admin[p]
           s == Head(r.todo)
<1>1. /\ r.todo # <<>> /\ s.do = "set op" /\ lastOp' = lastOp
      /\ ops' = {IF o.id = s.op THEN [o EXCEPT !.enabled = s.on] ELSE o : o \in ops}
      /\ BecomeAndDisturb(p, Executed(p))
  BY DEF SetOperation, Doing
<1>2. s = r.todo[1] /\ 1 \in DOMAIN r.todo /\ SetOK(r)
  BY <1>1, SequenceParts DEF ConnectorInv, RequestInv, RequestOK, ReplaceInv
<1>3. \A o \in ops : o.id = s.op => o.def = r.def
  BY <1>1, <1>2 DEF SetOK
<1>4. \A o \in ops : DOMAIN o = OpColumns
  BY DEF ConnectorInv, TableInv
<1> HIDE DEF s
<1>5. ASSUME NEW o \in ops
      PROVE  LET x == [o EXCEPT !.enabled = s.on] IN x.id = o.id /\ x.def = o.def
  BY <1>4 DEF OpColumns
<1>6. Kept
  <2>1. \A o \in ops' : \E q \in ops : q.id = o.id /\ q.def = o.def
    BY <1>1, <1>5
  <2>2. lastOp \in Nat /\ lastOp' = lastOp
    BY <1>1 DEF ConnectorInv, TableInv
  <2> QED BY <2>1, <2>2 DEF Kept
<1>7. ASSUME NEW d \in Definitions, d # r.def PROVE Left(d)' = Left(d)
  <2>1. \A o : o \in ops /\ o.def = d <=> o \in ops' /\ o.def = d
    BY <1>1, <1>3, <1>5, <1>7
  <2> QED BY <2>1 DEF Left
<1>8. PICK x : x = Executed(p)
  OBVIOUS
<1>9. ~IsDelete(Head(r.todo)) /\ ~IsInsert(Head(r.todo))
  BY <1>1 DEF s, IsDelete, IsInsert
<1>10. Early(x) /\ SetOK(x)
  BY <1>1, <1>8, <1>9, PlainRequest DEF Executed, SeedList
<1>11. ListOK(x)' /\ SetOK(x)'
  BY <1>6, <1>10, EarlyList, SetFrame
<1> QED BY <1>1, <1>6, <1>7, <1>8, <1>11, ReplaceMoves

\* A step that leaves the requests and the admins' operations alone.
LEMMA ReplaceStays ==
  ASSUME ConnectorInv, TableInv', ReplaceInv, Kept, UNCHANGED admin,
         \A d \in Definitions : Left(d)' = Left(d)
  PROVE  ReplaceInv'
<1>1. ASSUME NEW q \in Admins PROVE ListOK(admin[q])' /\ SetOK(admin[q])'
  <2>1. PICK x : x = admin[q] /\ RequestOK(x) /\ ListOK(x) /\ SetOK(x)
    BY DEF ConnectorInv, RequestInv, ReplaceInv
  <2>2. ListOK(x)' /\ SetOK(x)' /\ x = admin'[q]
    BY <2>1, ListFrame, SetFrame
  <2> QED BY <2>2
<1> QED BY <1>1 DEF ReplaceInv

\* Starts of services write no operations of admins.
LEMMA SeedReplaces ==
  ASSUME ConnectorInv, TableInv', ReplaceInv, NEW s \in Seeders,
         SeedNext(s) \/ SeedFails(s) \/ Crash(s)
  PROVE  ReplaceInv'
<1>1. UNCHANGED admin
  BY DEF SeedNext, SeedFails, Crash, Start, SeedSelect, SeedInsert, SeedCheckout, SeedRefund,
         SeedOperation, Stop, Stopped, Seeding
<1>2. ASSUME NEW i, NEW pc, NEW next, SeedOperation(s, i, pc, next) PROVE ReplaceInv'
  <2>1. PICK d, path, scopes : ops' = WithOperation(d, path, scopes, TRUE, "seed")
    BY <1>2 DEF SeedOperation
  <2>2. lastOp' = IF ops' = ops THEN lastOp ELSE lastOp + 1
    BY <1>2 DEF SeedOperation
  <2>3. Kept
    BY <2>1, <2>2, InsertKeeps
  <2>4. \A e \in Definitions : Left(e)' = Left(e)
    BY <2>1 DEF Left, WithOperation
  <2> QED BY <1>1, <2>3, <2>4, ReplaceStays
<1>3. ASSUME UNCHANGED <<ops, lastOp>> PROVE ReplaceInv'
  <2>1. Kept
    BY <1>3 DEF Kept, ConnectorInv, TableInv
  <2>2. \A e \in Definitions : Left(e)' = Left(e)
    BY <1>3 DEF Left
  <2> QED BY <1>1, <2>1, <2>2, ReplaceStays
<1>4. CASE SeedCheckout(s) \/ SeedRefund(s)
  BY <1>2, <1>4 DEF SeedCheckout, SeedRefund
<1>5. CASE Start(s) \/ SeedSelect(s) \/ SeedInsert(s) \/ Stop(s) \/ SeedFails(s) \/ Crash(s)
  BY <1>3, <1>5 DEF Start, SeedSelect, SeedInsert, Stop, SeedFails, Crash, Stopped
<1> QED BY <1>4, <1>5 DEF SeedNext

\* The starts and the end of the admin API.
LEMMA ApiReplaces ==
  ASSUME ConnectorInv, TableInv', ReplaceInv, ApiNext \/ StartFails
  PROVE  ReplaceInv'
<1>1. UNCHANGED <<ops, lastOp>>
  BY DEF ApiNext, StartFails, StartApi, ImportConnectors, CountConnectors, SeedDefaultConnector,
         StopApi, Starting
<1>2. Kept
  BY <1>1 DEF Kept, ConnectorInv, TableInv
<1>3. \A d \in Definitions : Left(d)' = Left(d)
  BY <1>1 DEF Left
<1>4. CASE UNCHANGED admin
  BY <1>2, <1>3, <1>4, ReplaceStays
<1>5. CASE StopApi
  <2>1. ASSUME NEW q \in Admins PROVE ListOK(admin[q])' /\ SetOK(admin[q])'
    <3>1. PICK x : x = admin'[q]
      OBVIOUS
    <3>2. CASE x = NoRequest("refused")
      <4>1. Early(x) /\ SetOK(x)
        BY <3>2, EndedEarly
      <4>2. ListOK(x)' /\ SetOK(x)'
        BY <1>2, <4>1, EarlyList, SetFrame
      <4> QED BY <3>1, <4>2
    <3>3. CASE x = admin[q]
      <4>1. RequestOK(x) /\ ListOK(x) /\ SetOK(x)
        BY <3>3 DEF ConnectorInv, RequestInv, ReplaceInv
      <4>2. ListOK(x)' /\ SetOK(x)'
        BY <1>2, <1>3, <4>1, ListFrame, SetFrame
      <4> QED BY <3>1, <4>2
    <3> QED BY <1>5, <3>1, <3>2, <3>3 DEF StopApi
  <2> QED BY <2>1 DEF ReplaceInv
<1> QED BY <1>4, <1>5 DEF ApiNext, StartFails, StartApi, ImportConnectors, CountConnectors,
                          SeedDefaultConnector

\* Steps beside the tables and their requests leave what updates have written.
LEMMA ReplaceRest ==
  ASSUME ConnectorInv, ConnectorInv', ReplaceInv, UNCHANGED <<tables, admin>>
  PROVE  ReplaceInv'
<1>1. UNCHANGED <<ops, lastOp, admin>> /\ TableInv'
  BY DEF tables, ConnectorInv
<1>2. Kept
  BY <1>1 DEF Kept, ConnectorInv, TableInv
<1>3. \A d \in Definitions : Left(d)' = Left(d)
  BY <1>1 DEF Left
<1> QED BY <1>1, <1>2, <1>3, ReplaceStays

\* Every step keeps what updates have written.
LEMMA NextReplaceInv ==
  ConnectorInv /\ ConnectorInv' /\ ReplaceInv /\ [ConnectorNext]_connectorVars => ReplaceInv'
<1> SUFFICES ASSUME ConnectorInv, ConnectorInv', ReplaceInv, [ConnectorNext]_connectorVars
             PROVE  ReplaceInv'
  OBVIOUS
<1>0. TableInv'
  BY DEF ConnectorInv
<1>1. ASSUME NEW p \in Admins, AdminStep(p) PROVE ReplaceInv'
  BY <1>0, <1>1, QuietStep, DeleteReplaces, InsertReplaces, SetReplaces DEF AdminStep
<1>2. CASE Fault
  BY <1>0, <1>2, QuietStep, SeedReplaces, ApiReplaces DEF Fault
<1>3. CASE UNCHANGED connectorVars
  BY <1>3, ReplaceRest DEF connectorVars
<1> QED BY <1>0, <1>1, <1>2, <1>3, ReplaceStarts, SeedReplaces, ApiReplaces DEF ConnectorNext

\* At the start no update is under way.
LEMMA InitReplaceInv == ConnectorInit => ReplaceInv
<1> SUFFICES ASSUME ConnectorInit, NEW p \in Admins PROVE ListOK(admin[p]) /\ SetOK(admin[p])
  BY DEF ReplaceInv
<1>1. admin[p] = NoRequest("none")
  BY DEF ConnectorInit
<1>2. NoRequest("none").list = Null
  BY DEF NoRequest
<1> QED BY <1>1, <1>2, EndedEarly DEF ListOK

\* The invariant of the updates.
LEMMA ReplaceInvariant == ConnectorSpec => []ReplaceInv
  BY InitReplaceInv, NextReplaceInv, ConnectorInvariant, PTL DEF ConnectorSpec

\* The last statement of an update is an insert.
LEMMA LastStatement ==
  ASSUME NEW r, DOMAIN r = RequestFields, IsSequence(r.todo), r.list # Null,
         Shape(r.todo, r.list), NEW first, SeedList(first), Proceed(r, first).list = Null
  PROVE  IsInsert(Head(r.todo)) /\ Len(r.todo) = 1 /\ Proceed(r, first).clean = r.clean
<1> DEFINE t == Tail(r.todo)
           u == first \o t
           q == Proceed(r, first)
<1>1. GoneOn(q, r, u)
  BY ProceedFields, Zenon
<1>2. /\ Len(r.todo) \in Nat /\ Len(r.list) \in Nat /\ Len(r.list) > 0 /\ Len(r.todo) > 0
      /\ ~IsDelete(r.todo[1]) /\ ~IsInsert(r.todo[1]) => Len(r.todo) > Len(r.list) + 1
      /\ IsDelete(r.todo[1]) => Len(r.todo) = Len(r.list) + 1
  BY ShapeHead
<1>3. Head(r.todo) = r.todo[1]
  BY SequenceParts DEF Shape
<1>4. IsSequence(t) /\ Len(t) = Len(r.todo) - 1
  BY RestParts DEF Shape
<1>5. IsSequence(first) /\ Len(first) \in Nat
  BY SeedListParts, SequenceParts
<1>6. q.list = Null
  OBVIOUS
<1> HIDE DEF t, q
<1>7. Joined(u, first, t)
  BY <1>4, <1>5, JoinParts, Zenon
<1> HIDE DEF u
<1>8. u = <<>> /\ q.clean = r.clean
  BY <1>1, <1>6 DEF GoneOn
<1>9. Len(u) = 0
  BY <1>8, NoStatement
<1>10. Len(u) = Len(first) + Len(t)
  BY <1>7 DEF Joined
<1>11. Len(r.todo) = 1
  <2> DEFINE m == Len(r.todo)
             a == Len(first)
  <2>1. m \in Nat /\ m > 0 /\ a \in Nat /\ a + (m - 1) = 0
    BY <1>2, <1>4, <1>5, <1>9, <1>10
  <2> HIDE DEF m, a
  <2>2. m = 1
    BY <2>1
  <2> QED BY <2>2 DEF m
<1>12. IsInsert(Head(r.todo))
  BY <1>2, <1>3, <1>11
<1> QED BY <1>8, <1>11, <1>12 DEF q

\* Only its own last insert lets an update answer ok with nothing failed.
LEMMA UpdateEnds ==
  ASSUME ConnectorInv, ReplaceInv, [ConnectorNext]_connectorVars, NEW p \in Admins,
         admin[p].list # Null, admin'[p] = NoRequest("ok")
  PROVE  InsertOperation(p) /\ Len(admin[p].todo) = 1 /\ admin[p].clean = TRUE
<1> DEFINE r == admin[p]
<1>1. /\ DOMAIN r = RequestFields /\ IsSequence(r.todo) /\ Shape(r.todo, r.list) /\ r.todo # <<>>
      /\ DOMAIN admin = Admins
  BY DEF ConnectorInv, RequestInv, RequestOK, ReplaceInv, ListOK, Shape
<1>2. admin'[p].list = Null /\ admin'[p].clean = TRUE /\ admin'[p].reply = "ok"
  BY DEF NoRequest
<1>3. ASSUME NEW q \in Admins, q # p, NEW x, Become(q, x) \/ BecomeAndDisturb(q, x) PROVE FALSE
  <2>1. CASE Become(q, x)
    BY <1>1, <1>2, <1>3, <2>1 DEF Become
  <2>2. CASE BecomeAndDisturb(q, x)
    <3> DEFINE z == [r EXCEPT !.alone = FALSE]
    <3>1. admin'[p] = CASE p = q -> x
                        [] p # q /\ admin[p].def = admin[q].def -> z
                        [] OTHER -> admin[p]
      BY <2>2, Zenon DEF BecomeAndDisturb
    <3>2. admin'[p] = z \/ admin'[p] = r
      <4> HIDE DEF z
      <4> QED BY <1>3, <3>1, Zenon
    <3>3. {"list", "alone"} \subseteq DOMAIN r
      BY <1>1 DEF RequestFields, NoRequest
    <3>4. z.list = r.list
      BY <3>3
    <3> QED BY <1>2, <3>2, <3>4
  <2> QED BY <1>3, <2>1, <2>2
<1>4. ASSUME NEW first, SeedList(first), Proceed(r, first).list = Null
      PROVE  /\ IsInsert(Head(r.todo)) /\ Len(r.todo) = 1
             /\ Proceed(r, first).clean = r.clean
  BY <1>1, <1>4, LastStatement
<1>5. ASSUME NEW q \in Admins, AdminCall(q) PROVE FALSE
  <2>1. \E todo, d, list : Request(q, todo, d, list)
    BY <1>5 DEF AdminCall, createCustomConnector, updateCustomConnector, putTenantConnector,
                putConnectorAction, upsertConnector
  <2>2. admin[q].todo = <<>> /\ \E x : Become(q, x)
    BY <2>1 DEF Request, Become
  <2> QED BY <1>1, <1>3, <2>2
<1>6. ASSUME NEW q \in Admins, q # p, AdminStep(q) \/ StatementFails(q) \/ RequestEnds(q) PROVE FALSE
  <2>1. \E x : Become(q, x) \/ BecomeAndDisturb(q, x)
    BY <1>6 DEF AdminStep, InsertDefinition, CheckBuiltin, UpdateDefinition, EnableConnector,
                ReadDisplay, InsertAction, DeleteOperations, InsertOperation, CheckOperation,
                SetOperation, UpsertRegistry, StatementFails, RequestEnds
  <2> QED BY <1>3, <1>6, <2>1
<1>7. ASSUME UNCHANGED admin PROVE FALSE
  BY <1>2, <1>7
<1>8. ASSUME Become(p, NoRequest("refused")) PROVE FALSE
  BY <1>1, <1>2, <1>8 DEF Become, NoRequest
<1>9. ASSUME NEW what, Doing(p, what), what # "insert op", NEW first, SeedList(first),
             NEW x, x.list = Proceed(r, first).list, Become(p, x) \/ BecomeAndDisturb(p, x)
      PROVE  FALSE
  <2>1. admin'[p] = x
    BY <1>1, <1>9, Zenon DEF Become, BecomeAndDisturb
  <2>2. IsInsert(Head(r.todo))
    BY <1>2, <1>4, <1>9, <2>1
  <2> QED BY <1>9, <2>2 DEF Doing, IsInsert
<1>10. ASSUME NEW what, Doing(p, what), what # "insert op",
              Become(p, Executed(p)) \/ BecomeAndDisturb(p, Executed(p))
       PROVE  FALSE
  BY <1>9, <1>10 DEF Executed, SeedList
<1>11. ASSUME AdminStep(p) PROVE InsertOperation(p)
  <2>1. ASSUME EnableConnector(p) \/ InsertAction(p) \/ UpsertRegistry(p) \/ SetOperation(p) PROVE FALSE
    BY <1>10, <2>1 DEF EnableConnector, InsertAction, UpsertRegistry, SetOperation
  <2>2. ASSUME CheckBuiltin(p) \/ CheckOperation(p) PROVE FALSE
    BY <1>8, <1>10, <2>2 DEF CheckBuiltin, CheckOperation
  <2>3. ASSUME UpdateDefinition(p) PROVE FALSE
    BY <1>8, <1>10, <2>3 DEF UpdateDefinition
  <2>4. ASSUME ReadDisplay(p) PROVE FALSE
    <3>1. PICK first : SeedList(first) /\ Become(p, Proceed(r, first))
      BY <2>4 DEF ReadDisplay, SeedList
    <3> QED BY <1>9, <2>4, <3>1 DEF ReadDisplay
  <2>5. {"todo", "def", "list", "alone"} \subseteq DOMAIN Executed(p)
    <3>1. Proceeded(Executed(p), r, <<>>)
      BY <1>1, NoStatement, ProceedParts, Zenon DEF Executed
    <3> QED BY <3>1 DEF Proceeded, RequestFields, NoRequest
  <2>6. ASSUME NEW v PROVE /\ [Executed(p) EXCEPT !.alone = v].list = Executed(p).list
                           /\ [Executed(p) EXCEPT !.def = v].list = Executed(p).list
    BY <2>5
  <2>7. SeedList(<<>>)
    BY DEF SeedList
  <2>8. ASSUME DeleteOperations(p) PROVE FALSE
    <3>1. Doing(p, "delete ops") /\ BecomeAndDisturb(p, [Executed(p) EXCEPT !.alone = TRUE])
      BY <2>8 DEF DeleteOperations
    <3>2. [Executed(p) EXCEPT !.alone = TRUE].list = Proceed(r, <<>>).list
      BY <2>6 DEF Executed
    <3> QED BY <1>9, <2>7, <3>1, <3>2
  <2>9. ASSUME InsertDefinition(p) PROVE FALSE
    <3>1. PICK v : Become(p, NoRequest("refused")) \/ Become(p, [Executed(p) EXCEPT !.def = v])
      BY <2>9 DEF InsertDefinition
    <3>2. [Executed(p) EXCEPT !.def = v].list = Proceed(r, <<>>).list
      BY <2>6 DEF Executed
    <3>3. Doing(p, "insert def")
      BY <2>9 DEF InsertDefinition
    <3> QED BY <1>8, <1>9, <2>7, <3>1, <3>2, <3>3
  <2> QED BY <1>11, <2>1, <2>2, <2>3, <2>4, <2>8, <2>9 DEF AdminStep
<1>12. ASSUME StatementFails(p) PROVE FALSE
  <2> DEFINE b == r.read /\ ~Doing(p, "check builtin")
             f == [r EXCEPT !.clean = FALSE, !.read = b]
             q == Proceed(f, <<>>)
  <2>1. Become(p, q)
    BY <1>12 DEF StatementFails
  <2>2. {"todo", "list", "clean", "read"} \subseteq DOMAIN r
    BY <1>1 DEF RequestFields, NoRequest
  <2> HIDE DEF b
  <2>3. DOMAIN f = RequestFields /\ f.todo = r.todo /\ f.list = r.list /\ f.clean = FALSE
    BY <1>1, <2>2
  <2> HIDE DEF f, q, r
  <2>4. q.list = Null /\ q.clean = TRUE
    <3>1. admin'[p] = q
      BY <1>1, <2>1 DEF Become
    <3> QED BY <1>2, <3>1
  <2>5. SeedList(<<>>) /\ f.list # Null
    BY <2>3 DEF SeedList, r
  <2>6. q.clean = f.clean
    BY <1>1, <2>3, <2>4, <2>5, LastStatement DEF q
  <2> QED BY <2>3, <2>4, <2>6
<1>13. ASSUME InsertOperation(p) PROVE Len(r.todo) = 1 /\ r.clean = TRUE
  <2>1. admin'[p] = Proceed(r, <<>>)
    BY <1>13, Zenon DEF InsertOperation, BecomeAndDisturb, Executed
  <2> QED BY <1>2, <1>4, <2>1 DEF SeedList
<1>14. ASSUME RequestEnds(p) PROVE FALSE
  BY <1>8, <1>14 DEF RequestEnds
<1>15. ASSUME StopApi PROVE FALSE
  <2>1. admin'[p] = NoRequest("refused")
    BY <1>1, <1>15 DEF StopApi
  <2> QED BY <1>2, <2>1 DEF NoRequest
<1>16. ASSUME ApiNext \/ StartFails PROVE FALSE
  BY <1>7, <1>15, <1>16 DEF ApiNext, StartFails, StartApi, ImportConnectors, CountConnectors,
                            SeedDefaultConnector
<1>17. ASSUME NEW s \in Seeders, SeedNext(s) \/ SeedFails(s) \/ Crash(s) PROVE FALSE
  BY <1>7, <1>17 DEF SeedNext, SeedFails, Crash, Start, SeedSelect, SeedInsert, SeedCheckout,
                     SeedRefund, SeedOperation, Stop, Stopped, Seeding
<1>18. ASSUME UNCHANGED connectorVars PROVE FALSE
  BY <1>7, <1>18 DEF connectorVars
<1>19. InsertOperation(p)
  BY <1>5, <1>6, <1>11, <1>12, <1>14, <1>16, <1>17, <1>18 DEF ConnectorNext, Fault
<1> QED BY <1>13, <1>19

\* The last insert of an update completes its list.
LEMMA UpdateCompletes ==
  ASSUME ConnectorInv, ReplaceInv, [ConnectorNext]_connectorVars, NEW p \in Admins,
         admin[p].list # Null, admin[p].alone, admin[p].def \in Definitions,
         admin'[p] = NoRequest("ok")
  PROVE  /\ {[path |-> o.path, on |-> o.enabled] : o \in {o \in ops' : o.def = admin[p].def /\ o.by = "admin"}}
              = Listed(admin[p].list)
         /\ Cardinality({o \in ops' : o.def = admin[p].def /\ o.by = "admin"}) = Len(admin[p].list)
<1>1. InsertOperation(p) /\ Len(admin[p].todo) = 1 /\ admin[p].clean = TRUE
  BY UpdateEnds
<1>2. PICK x : x = admin[p]
  OBVIOUS
<1>3. IsSequence(x.todo) /\ Shape(x.todo, x.list)
  BY <1>2 DEF ConnectorInv, RequestInv, RequestOK, ReplaceInv, ListOK
<1>4. Len(x.list) \in Nat /\ Len(x.list) > 0 /\ DOMAIN x.list = 1..Len(x.list)
  BY <1>3, ShapeHead
<1>5. PICK k : k = Len(x.list) - 1
  OBVIOUS
<1>6. Len(x.todo) <= Len(x.list) /\ k = Len(x.list) - Len(x.todo) /\ k + 1 = Len(x.list) /\ k \in Nat
  <2> DEFINE m == Len(x.todo)
             n == Len(x.list)
  <2>1. m = 1 /\ n \in Nat /\ n > 0 /\ k = n - 1
    BY <1>1, <1>2, <1>4, <1>5
  <2> HIDE DEF m, n
  <2>2. m <= n /\ k = n - m /\ k + 1 = n /\ k \in Nat
    BY <2>1
  <2> QED BY <2>2 DEF m, n
<1>7. Written(x.def, x.list, k)
  <2>1. ListOK(x) /\ x.list # Null /\ x.alone /\ x.clean /\ x.def \in Definitions
    BY <1>1, <1>2 DEF ReplaceInv
  <2> QED BY <1>6, <2>1 DEF ListOK
<1>8. PICK path, scopes, on :
        /\ path = Head(x.todo).path /\ scopes = Head(x.todo).scopes /\ on = Head(x.todo).on
  OBVIOUS
<1>9. path = x.list[k + 1].path /\ on = (x.list[k + 1].enabled # FALSE)
  BY <1>3, <1>6, <1>8, NextInsert
<1>10. ops' = WithOperation(x.def, path, scopes, on, "admin")
  BY <1>1, <1>2, <1>8 DEF InsertOperation
<1>11. Written(x.def, x.list, k + 1)'
  BY <1>2, <1>6, <1>7, <1>9, <1>10, InsertWrites DEF ConnectorInv
<1>12. Left(x.def)' = {o \in ops' : o.def = admin[p].def /\ o.by = "admin"}
  BY <1>2 DEF Left
<1>13. /\ Cardinality(Left(x.def)') = Len(x.list)
       /\ {[path |-> o.path, on |-> o.enabled] : o \in Left(x.def)'} = Listed(x.list)
  <2>1. Written(x.def, x.list, Len(x.list))'
    BY <1>6, <1>11
  <2>2. /\ Cardinality(Left(x.def)') = Len(x.list)
        /\ {[path |-> o.path, on |-> o.enabled] : o \in Left(x.def)'}
             = {[path |-> x.list[i].path, on |-> x.list[i].enabled # FALSE] : i \in 1..Len(x.list)}
    BY <2>1, Zenon DEF Written
  <2> QED BY <1>4, <2>2, Zenon DEF Listed
<1> QED BY <1>2, <1>12, <1>13

\* updateCustomConnector replaces: an update that answers ok and was not
\* disturbed by another request on its connector leaves the operations of its
\* body, each once, for any list of operations, any number of admins, and
\* whatever services start meanwhile.
THEOREM UpdatesReplace == ConnectorSpec => UpdateReplaces
<1>1. ConnectorInv /\ ReplaceInv /\ [ConnectorNext]_connectorVars =>
        [\A p \in Admins :
           LET r == admin[p]
               left == {o \in ops' : o.def = r.def /\ o.by = "admin"}
           IN
           /\ r.list # Null /\ r.alone /\ r.def \in Definitions
           /\ admin'[p] = NoRequest("ok")
           => /\ {[path |-> o.path, on |-> o.enabled] : o \in left} = Listed(r.list)
              /\ Cardinality(left) = Len(r.list)]_connectorVars
  BY UpdateCompletes
<1> QED BY <1>1, ConnectorInvariant, ReplaceInvariant, PTL DEF ConnectorSpec, UpdateReplaces
=============================================================================
