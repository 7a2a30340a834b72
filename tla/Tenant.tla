-------------------------------- MODULE Tenant --------------------------------
(***************************************************************************)
(* What the modules of the policy service share.  One tenant is modelled:  *)
(* every statement of the code is scoped to the tenant of the request, and *)
(* tenants share no row.                                                   *)
(***************************************************************************)
CONSTANTS
  ActionKeys,   \* action keys of the tenant
  Null,         \* a nil map, a NULL column, a field left out of a body
  Faults        \* whether a statement may fail and a service may stop

ASSUME TenantAssumption == Faults \in BOOLEAN
=============================================================================
