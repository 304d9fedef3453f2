------------------------------ MODULE UserAdmin ------------------------------
(***************************************************************************)
(* UsersService.create and UsersService.update, the UsersRepository calls  *)
(* they make (one transaction each) and PermissionsGuard in front of them, *)
(* for the users of one hotel.  Every update is a request of its own: it   *)
(* reads its target, may count the active admins, then writes, and other   *)
(* requests may come between these transactions.  A refusal (403, 404,     *)
(* 409) changes nothing and frees the request.                             *)
(***************************************************************************)
EXTENDS Naturals, FiniteSets

CONSTANTS
  Requests,  \* slots for updates being served at one time
  Users,     \* identities a user row may have
  Edits,     \* the UpdateUserDto bodies that are sent
  Lists,     \* the permissions that CreateUserDto bodies carry, or None
  Unlisted,  \* any string that is no permission
  None       \* no row, or a field the body leaves out

Roles == {"admin", "manager", "staff"}

\* The eight permissions, as far as the role defaults tell them apart: what only
\* admin has, what staff lacks (it opens this API), what everyone has.
ALL_PERMISSIONS == {"network:edit", "users:manage", "guests:view"}

ROLE_DEFAULT_PERMISSIONS ==
  [admin   |-> ALL_PERMISSIONS,
   manager |-> {"users:manage", "guests:view"},
   staff   |-> {"guests:view"}]

\* CreateUserDto lets any string through as a permission, UpdateUserDto does not.
Strings == ALL_PERMISSIONS \union {Unlisted}

UserRow == [role : Roles, permissions : SUBSET Strings, isActive : BOOLEAN]

UpdateUserDto ==
  [role        : {None} \union Roles,
   permissions : {None} \union SUBSET ALL_PERMISSIONS,
   isActive    : {None} \union BOOLEAN]

ASSUME EditsAssumption    == Edits \subseteq UpdateUserDto
ASSUME ListsAssumption    == Lists \subseteq {None} \union SUBSET Strings
ASSUME UsersAssumption    == IsFiniteSet(Users)
ASSUME NoneAssumption     ==
  \A x \in UserRow \union Roles \union BOOLEAN \union SUBSET Strings : x # None

VARIABLES
  users,     \* users[u]: the row of u, or None
  admitted,  \* users who hold an access token that PermissionsGuard lets pass
  req,       \* req[r]: where update r stands
  tuned      \* history: users whose permissions were last given as a list

vars == <<users, admitted, req, tuned>>

Idle == [pc |-> "idle"]

\* overlapped is history: another update has written since this one's first read.
RequestState ==
  [pc : {"count", "write"}, actor : Users, id : Users, dto : Edits, overlapped : BOOLEAN]
    \union {Idle}

Exists(u) == users[u] # None

ActiveAdmins == {u \in Users : Exists(u) /\ users[u].role = "admin" /\ users[u].isActive}

Init ==
  /\ \E u \in Users :
       users = [v \in Users |->
         IF v = u
           THEN [role |-> "admin", permissions |-> ALL_PERMISSIONS, isActive |-> TRUE]
           ELSE None]
  /\ admitted = {}
  /\ req = [r \in Requests |-> Idle]
  /\ tuned = {}

-----------------------------------------------------------------------------
(* Access tokens: claims are copied from the row when login or refresh reads it
   and are what the guard reads until the token expires. *)

GuardPasses(row) == row.role = "admin" \/ "users:manage" \in row.permissions

SignAccessToken(u) ==
  /\ Exists(u) /\ users[u].isActive
  /\ GuardPasses(users[u])
  /\ admitted' = admitted \union {u}
  /\ UNCHANGED <<users, req, tuned>>

AccessTokenExpires(u) ==
  /\ u \in admitted
  /\ admitted' = admitted \ {u}
  /\ UNCHANGED <<users, req, tuned>>

-----------------------------------------------------------------------------
(* UsersService *)

\* The permissions of a row: the list that was sent, or the role's defaults.
PermissionsFor(role, list) == IF list # None THEN list ELSE ROLE_DEFAULT_PERMISSIONS[role]

Tune(u, role, list) ==
  tuned' = IF list # None THEN tuned \union {u} ELSE IF role # None THEN tuned \ {u} ELSE tuned

\* POST /users; a second row with the same e-mail is refused by the index.
Create(a, u, role, list) ==
  /\ a \in admitted
  /\ ~Exists(u)
  /\ users' = [users EXCEPT ![u] =
       [role |-> role, permissions |-> PermissionsFor(role, list), isActive |-> TRUE]]
  /\ Tune(u, role, list)
  /\ UNCHANGED <<admitted, req>>

\* Mutant: only switching off is refused.
SelfLockoutOnlyOff(a, u, d) == a = u /\ d.isActive = FALSE

\* Refused with 403: switching off one's account, or changing one's role.
SelfLockout(a, u, d) ==
  /\ a = u
  /\ d.isActive = FALSE \/ (d.role # None /\ d.role # users[u].role)

\* Mutant: a deactivation is not seen as taking an admin away.
DropsByRoleOnly(row, d) ==
  row.role = "admin" /\ row.isActive /\ d.role \in Roles \ {"admin"}

\* The edit takes an active admin away.
DropsThisAdmin(row, d) ==
  /\ row.role = "admin" /\ row.isActive
  /\ d.isActive = FALSE \/ d.role \in Roles \ {"admin"}

\* PATCH /users/:id up to the second query: findById and the checks on it.
UpdateRead(r, a, u, d) ==
  /\ req[r] = Idle
  /\ a \in admitted
  /\ Exists(u)
  /\ ~SelfLockout(a, u, d)
  /\ req' = [req EXCEPT ![r] =
       [pc |-> IF DropsThisAdmin(users[u], d) THEN "count" ELSE "write",
        actor |-> a, id |-> u, dto |-> d, overlapped |-> FALSE]]
  /\ UNCHANGED <<users, admitted, tuned>>

\* countActiveAdmins; the last one is refused with 409.
UpdateCount(r) ==
  /\ req[r].pc = "count"
  /\ req' = [req EXCEPT ![r] =
       IF Cardinality(ActiveAdmins) <= 1 THEN Idle ELSE [req[r] EXCEPT !.pc = "write"]]
  /\ UNCHANGED <<users, admitted, tuned>>

\* Mutant: a new role leaves the permissions of the old one.
UpdatedWithoutReseed(row, d) ==
  [role        |-> IF d.role # None THEN d.role ELSE row.role,
   permissions |-> IF d.permissions # None THEN d.permissions ELSE row.permissions,
   isActive    |-> IF d.isActive # None THEN d.isActive ELSE row.isActive]

\* Mutant: a field the body leaves out is written as undefined.
UpdatedByUndefined(row, d) ==
  [role        |-> IF d.role # None THEN d.role ELSE row.role,
   permissions |-> IF d.role = None /\ d.permissions = None
                     THEN row.permissions ELSE PermissionsFor(d.role, d.permissions),
   isActive    |-> d.isActive]

\* The row after updateMany: fields left out of the body stay, and a new role
\* without a permission list re-seeds the defaults.
Updated(row, d) ==
  [role        |-> IF d.role # None THEN d.role ELSE row.role,
   permissions |-> IF d.role = None /\ d.permissions = None
                     THEN row.permissions ELSE PermissionsFor(d.role, d.permissions),
   isActive    |-> IF d.isActive # None THEN d.isActive ELSE row.isActive]

UpdateWrite(r) ==
  LET u == req[r].id
      d == req[r].dto
  IN
  /\ req[r].pc = "write"
  /\ users' = [users EXCEPT ![u] = Updated(users[u], d)]
  /\ Tune(u, d.role, d.permissions)
  /\ req' = [q \in Requests |->
       IF q = r \/ req[q] = Idle THEN Idle ELSE [req[q] EXCEPT !.overlapped = TRUE]]
  /\ UNCHANGED admitted

\* A query throws, or the server stops.
Fail(r) ==
  /\ req[r] # Idle
  /\ req' = [req EXCEPT ![r] = Idle]
  /\ UNCHANGED <<users, admitted, tuned>>

Next ==
  \/ \E u \in Users : SignAccessToken(u) \/ AccessTokenExpires(u)
  \/ \E a, u \in Users :
       \/ \E role \in Roles, list \in Lists : Create(a, u, role, list)
       \/ \E r \in Requests, d \in Edits : UpdateRead(r, a, u, d)
  \/ \E r \in Requests : UpdateCount(r) \/ UpdateWrite(r) \/ Fail(r)

Spec == Init /\ [][Next]_vars

-----------------------------------------------------------------------------
(* Properties *)

\* The shape of the state; an update that was admitted has an existing target.
\* The permissions of a row need not be permissions.
TypeOK ==
  /\ users \in [Users -> UserRow \union {None}]
  /\ admitted \subseteq {u \in Users : Exists(u)}
  /\ req \in [Requests -> RequestState]
  /\ \A r \in Requests : req[r] # Idle => Exists(req[r].id)
  /\ tuned \subseteq Users

\* `permissions` is what the guard reads: however creations and edits of role
\* and permissions interleave, a user whose list was not given by hand has the
\* defaults of the role they have now, never those of a role they had before.
PermissionsFollowRole ==
  \A u \in Users : Exists(u) /\ u \notin tuned =>
    users[u].permissions = ROLE_DEFAULT_PERMISSIONS[users[u].role]

\* An update that no other write came into takes the hotel's last active admin
\* away in no case, whoever sends it, on whatever row, and with whatever access
\* token still valid (assertAnAdminRemains).
LastAdminKept ==
  [][\A r \in Requests :
       UpdateWrite(r) /\ ~req[r].overlapped /\ ActiveAdmins # {} => ActiveAdmins' # {}]_vars

\* An update that no other write came into leaves its own author active and in
\* the role they had (assertNotSelfLockout).
OwnAccountKept ==
  [][\A r \in Requests :
       UpdateWrite(r) /\ ~req[r].overlapped /\ req[r].actor = req[r].id =>
         \A u \in Users : u = req[r].id =>
           /\ users'[u].role = users[u].role
           /\ users[u].isActive => users'[u].isActive]_vars

\* users.service.ts says of assertAnAdminRemains: "Refuses the edit that would
\* leave a hotel with no active admin at all".
AnAdminRemains == ActiveAdmins # {}

=============================================================================
