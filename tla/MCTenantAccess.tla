--------------------------- MODULE MCTenantAccess ---------------------------
(***************************************************************************)
(* TenantAccess for TLC.                                                   *)
(***************************************************************************)
EXTENDS TenantAccess, TLC

Symmetry ==
  Permutations(Requests) \union Permutations(Conns) \union Permutations(Tenants)
    \union Permutations(Rows)

=============================================================================
