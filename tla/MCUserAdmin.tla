----------------------------- MODULE MCUserAdmin -----------------------------
(***************************************************************************)
(* UserAdmin for TLC.                                                      *)
(***************************************************************************)
EXTENDS UserAdmin, TLC

Dto(role, permissions, isActive) ==
  [role |-> role, permissions |-> permissions, isActive |-> isActive]

\* Each kind of edit: promotion and demotions, a permission list with and
\* without a role, activation and deactivation.
MCEdits ==
  {Dto(role, None, None) : role \in Roles} \union
  {Dto(None, {"users:manage"}, None), Dto("staff", {"users:manage"}, None),
   Dto(None, None, TRUE), Dto(None, None, FALSE)}

\* A creation by the role's defaults, by a list of permissions, and by one that
\* holds something else.
MCLists == {None, {"users:manage"}, {"guests:view", Unlisted}}

Symmetry == Permutations(Requests) \union Permutations(Users)

=============================================================================
