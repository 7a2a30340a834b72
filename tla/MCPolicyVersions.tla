--------------------------- MODULE MCPolicyVersions ---------------------------
(* Instances of PolicyVersions for TLC. *)
EXTENDS PolicyVersions, TLC

CONSTANTS k1, k2, rego1, rego2, cr1, cr2, pub1, pub2

\* A body may carry any number.  With -1 the computed MAX + 1 = 0 is met, which
\* the code replaces by 1; 0 itself is stored only when a body asks for it.
MCVersionNosWithZero == {-1, 0, 1, 2}

\* Codes and creators are only compared for equality, and every property of the
\* run is one of safety.
MCSymmetry == Permutations(Codes) \cup Permutations(Creators)
=============================================================================
