--------------------------- MODULE MCPolicyService ---------------------------
(* Instances of PolicyService for TLC. *)
EXTENDS PolicyService

CONSTANTS k1, k2, regoRisk, regoOpen, c1, c2, cr1, pub1, key1

\* regoRisk blocks when the fact "risk" is not 1, asks for input when there is
\* no such fact, and is undefined without facts; regoOpen allows with
\* conditions for a shorter time.
MCRego(code, inputs, facts) ==
  CASE code = regoOpen -> [kind |-> "object", status |-> "ALLOW_WITH_CONDITIONS", ttl |-> 1]
    [] facts = Null    -> [kind |-> "error"]
    [] OTHER ->
         [kind   |-> "object",
          status |-> IF "risk" \notin DOMAIN facts THEN "NEEDS_INPUT"
                     ELSE IF facts["risk"] = Num(1) THEN "ALLOW" ELSE "REVIEW",
          ttl    |-> 0]

Plain  == [value |-> Nil, idem |-> Null]
Keyed  == [value |-> Num(1), idem |-> key1]

MCOneInput  == {Plain}
MCInputs    == {Plain, Keyed}

MCExecute == {"preflight", "execute"}
MCAll     == {"preflight", "execute", "test"}

MCSymmetry == Permutations(Clients)

MCVersionOne == {1}

\* One resolver "score" and the mapping of its sample to the fact "risk".
Row(sample) == [keyed |-> TRUE, sample |-> sample, enabled |-> TRUE]
RiskMapping(transform) ==
  [path |-> "score", factKey |-> "risk", transform |-> transform, args |-> <<>>, required |-> TRUE]

MCResolvers   == [a \in ActionKeys |-> ("score" :> Row(Num(1)))]
MCMappings    == [a \in ActionKeys |-> ("m" :> RiskMapping(""))]

\* Edits: the sample of the resolver changes.
MCNoBodies == {}
MCSampleEdits ==
  {[name |-> "score", keyed |-> FALSE, sample |-> Num(n), enabled |-> Null] : n \in {1, 2}}

MCMappingEdits ==
  {[name |-> "m", path |-> p, factKey |-> "risk", transform |-> Null, args |-> Null,
    required |-> Null] : p \in {"score", "bad"}}

MCPolicyRisk == [a \in ActionKeys |-> regoRisk]
MCPolicyK1   == [a \in ActionKeys |-> IF a = k1 THEN regoRisk ELSE NoCode]
=============================================================================
