-------------------------- MODULE GovernedExecution --------------------------
(***************************************************************************)
(* What the policy service promises, without its requests, statements,     *)
(* facts, clock and admins: decisions are granted once and never withdrawn *)
(* or rewritten, and an execution is performed at most once a request and  *)
(* only under a decision granted before it.                                *)
(***************************************************************************)
CONSTANT Allows(_, _)   \* whether a decision allows an execution

VARIABLES
  granted,    \* decisions: records with a field id
  performed   \* executions: records with fields n, task and decision

Init == granted = {} /\ performed = {}

\* One decision is added, under an id of its own.
Grant ==
  /\ \E d \in granted' :
       /\ granted' = granted \cup {d}
       /\ \A g \in granted : g.id # d.id
  /\ UNCHANGED performed

\* One execution is added, the first of its request; where a client asked for
\* it, a decision granted before allows it.
Perform ==
  /\ \E e \in performed' :
       /\ performed' = performed \cup {e}
       /\ \A f \in performed : f.n # e.n
       /\ e.task = "execute" => \E d \in granted : d.id = e.decision /\ Allows(d, e)
  /\ UNCHANGED granted

Next == Grant \/ Perform

Spec == Init /\ [][Next]_<<granted, performed>>
=============================================================================
