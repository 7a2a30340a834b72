--------------------------- MODULE MCDecisionPaging ---------------------------
(* Instances of DecisionPaging for TLC. *)
EXTENDS DecisionPaging

\* A page of one, a page of two, and limits that are out of range.
MCLimits == {1, 2, 0, MaxLimit + 1, Null}
=============================================================================
