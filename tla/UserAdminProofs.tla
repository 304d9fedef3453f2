--------------------------- MODULE UserAdminProofs ---------------------------
(***************************************************************************)
(* Proofs about UserAdmin for any number of users, of concurrent updates   *)
(* and of bodies they send.                                                *)
(***************************************************************************)
EXTENDS UserAdmin, FiniteSetTheorems, TLAPS

\* The rules that decide a row give a row.
LEMMA UpdatedRow ==
  ASSUME NEW row \in UserRow, NEW d \in Edits
  PROVE  Updated(row, d) \in UserRow
<1>1. d \in UpdateUserDto
  BY EditsAssumption
<1>2. ROLE_DEFAULT_PERMISSIONS \in [Roles -> SUBSET Strings]
  BY DEF ROLE_DEFAULT_PERMISSIONS, Roles, ALL_PERMISSIONS, Strings
<1> QED
  BY <1>1, <1>2 DEF Updated, UserRow, UpdateUserDto, PermissionsFor, Strings

\* The record of an update that has made its first query.
Active == [pc : {"count", "write"}, actor : Users, id : Users, dto : Edits, overlapped : BOOLEAN]

\* An update in progress is told apart from a free slot by its place.
LEMMA ActiveRequest ==
  ASSUME TypeOK, NEW r \in Requests
  PROVE  /\ req[r] # Idle => req[r] \in Active /\ Exists(req[r].id)
         /\ req[r] = Idle => req[r].pc = "idle"
         /\ req[r].pc \in {"count", "write"} => req[r] # Idle
  BY DEF TypeOK, RequestState, Active, Idle

\* The shape of the state survives every step.
LEMMA TypeStep == TypeOK /\ [Next]_vars => TypeOK'
<1> SUFFICES ASSUME TypeOK, [Next]_vars PROVE TypeOK'
  OBVIOUS
<1>1. CASE UNCHANGED vars
  BY <1>1 DEF TypeOK, vars, Exists
<1>2. ASSUME NEW u \in Users, SignAccessToken(u) \/ AccessTokenExpires(u)
      PROVE  TypeOK'
  BY <1>2 DEF TypeOK, SignAccessToken, AccessTokenExpires, Exists
<1>3. ASSUME NEW a \in Users, NEW u \in Users, NEW role \in Roles, NEW list \in Lists,
             Create(a, u, role, list)
      PROVE  TypeOK'
  <2>1. list \in {None} \union SUBSET Strings
    BY ListsAssumption
  <2>2. PermissionsFor(role, list) \in SUBSET Strings
    BY <2>1 DEF PermissionsFor, ROLE_DEFAULT_PERMISSIONS, Roles, ALL_PERMISSIONS, Strings
  <2> DEFINE row == [role |-> role, permissions |-> PermissionsFor(role, list), isActive |-> TRUE]
  <2>3. row \in UserRow /\ row # None
    BY <2>2, NoneAssumption DEF UserRow
  <2>4. users' = [users EXCEPT ![u] = row]
    BY <1>3 DEF Create
  <2> HIDE DEF row
  <2>5. \A v \in Users : users[v] # None => users'[v] # None
    BY <2>3, <2>4 DEF TypeOK
  <2>6. tuned' \subseteq Users
    BY <1>3 DEF TypeOK, Create, Tune
  <2>7. users' \in [Users -> UserRow \union {None}]
    BY <2>3, <2>4 DEF TypeOK
  <2>8. admitted' = admitted /\ req' = req
    BY <1>3 DEF Create
  <2>9. \A r \in Requests : req[r] # Idle => req[r].id \in Users
    BY ActiveRequest DEF Active
  <2> QED
    BY <2>5, <2>6, <2>7, <2>8, <2>9 DEF TypeOK, Exists
<1>4. ASSUME NEW r \in Requests, NEW a \in Users, NEW u \in Users, NEW d \in Edits,
             UpdateRead(r, a, u, d)
      PROVE  TypeOK'
  <2> DEFINE s == [pc |-> IF DropsThisAdmin(users[u], d) THEN "count" ELSE "write",
                   actor |-> a, id |-> u, dto |-> d, overlapped |-> FALSE]
  <2>1. s \in Active /\ s.id = u
    BY DEF Active
  <2>2. req' = [req EXCEPT ![r] = s]
    BY <1>4 DEF UpdateRead
  <2> HIDE DEF s
  <2> QED
    BY <1>4, <2>1, <2>2 DEF TypeOK, RequestState, Active, UpdateRead, Exists
<1>5. ASSUME NEW r \in Requests, UpdateCount(r)
      PROVE  TypeOK'
  <2>1. req[r] \in Active /\ Exists(req[r].id)
    BY <1>5, ActiveRequest DEF UpdateCount
  <2> DEFINE s == [req[r] EXCEPT !.pc = "write"]
  <2>2. s \in Active /\ s.id = req[r].id
    BY <2>1 DEF Active
  <2>3. req' = [req EXCEPT ![r] = Idle] \/ req' = [req EXCEPT ![r] = s]
    BY <1>5 DEF UpdateCount
  <2> HIDE DEF s
  <2> QED
    BY <1>5, <2>1, <2>2, <2>3 DEF TypeOK, RequestState, Active, UpdateCount, Exists
<1>6. ASSUME NEW r \in Requests, UpdateWrite(r)
      PROVE  TypeOK'
  <2>1. req[r] \in Active /\ Exists(req[r].id)
    BY <1>6, ActiveRequest DEF UpdateWrite
  <2>2. users[req[r].id] \in UserRow
    BY <2>1 DEF TypeOK, Exists, Active
  <2>3. Updated(users[req[r].id], req[r].dto) \in UserRow
    BY <2>1, <2>2, UpdatedRow DEF Active
  <2>4. users' = [users EXCEPT ![req[r].id] = Updated(users[req[r].id], req[r].dto)]
    BY <1>6 DEF UpdateWrite
  <2>5. /\ users' \in [Users -> UserRow \union {None}]
        /\ \A v \in Users : users[v] # None => users'[v] # None
    BY <2>3, <2>4, NoneAssumption DEF TypeOK
  <2>6. ASSUME NEW q \in Requests, req'[q] # Idle
        PROVE  /\ req'[q] \in Active
               /\ users'[req'[q].id] # None
    <3>1. req[q] # Idle /\ req'[q] = [req[q] EXCEPT !.overlapped = TRUE]
      BY <1>6, <2>6 DEF UpdateWrite
    <3>2. req[q] \in Active /\ users[req[q].id] # None
      BY <3>1, ActiveRequest DEF Exists
    <3>3. req'[q] \in Active /\ req'[q].id = req[q].id
      BY <3>1, <3>2 DEF Active
    <3> QED
      BY <2>5, <3>2, <3>3 DEF Active
  <2>7. req' \in [Requests -> RequestState]
    <3>1. req' = [q \in Requests |-> req'[q]]
      BY <1>6 DEF UpdateWrite
    <3> QED
      BY <2>6, <3>1 DEF RequestState, Active
  <2>8. tuned' \subseteq Users
    BY <1>6, <2>1 DEF TypeOK, UpdateWrite, Tune, Active
  <2>9. admitted' = admitted
    BY <1>6 DEF UpdateWrite
  <2> QED
    BY <2>5, <2>6, <2>7, <2>8, <2>9 DEF TypeOK, Exists
<1>7. ASSUME NEW r \in Requests, Fail(r)
      PROVE  TypeOK'
  BY <1>7 DEF TypeOK, RequestState, Fail, Exists
<1> QED
  BY <1>1, <1>2, <1>3, <1>4, <1>5, <1>6, <1>7 DEF Next

\* Type correctness, for every set of users, of concurrent updates and bodies.
THEOREM TypeCorrect == Spec => []TypeOK
<1>1. Init => TypeOK
  BY DEF Init, TypeOK, RequestState, UserRow, Roles, Strings
<1> QED
  BY <1>1, TypeStep, PTL DEF Spec

-----------------------------------------------------------------------------
(* Permissions and role *)

\* A step keeps the permissions of users whose list nobody set by hand equal to
\* their role's defaults.
LEMMA DefaultsStep ==
  TypeOK /\ PermissionsFollowRole /\ [Next]_vars => PermissionsFollowRole'
<1> SUFFICES ASSUME TypeOK, PermissionsFollowRole, [Next]_vars,
                    NEW v \in Users, Exists(v)', v \notin tuned'
             PROVE  users'[v].permissions = ROLE_DEFAULT_PERMISSIONS[users'[v].role]
  BY DEF PermissionsFollowRole, Exists
<1>1. CASE users' = users /\ tuned' = tuned
  BY <1>1 DEF PermissionsFollowRole, Exists
<1>2. ASSUME NEW a \in Users, NEW u \in Users, NEW role \in Roles, NEW list \in Lists,
             Create(a, u, role, list)
      PROVE  users'[v].permissions = ROLE_DEFAULT_PERMISSIONS[users'[v].role]
  <2>1. CASE v # u
    <3>1. users'[v] = users[v] /\ v \notin tuned
      BY <1>2, <2>1 DEF Create, Tune, TypeOK
    <3> QED
      BY <3>1 DEF PermissionsFollowRole, Exists
  <2>2. CASE v = u
    <3>1. list = None
      BY <1>2, <2>2 DEF Create, Tune
    <3>2. /\ users'[v].role = role
          /\ users'[v].permissions = PermissionsFor(role, list)
      BY <1>2, <2>2 DEF Create, TypeOK
    <3> QED
      BY <3>1, <3>2 DEF PermissionsFor
  <2> QED
    BY <2>1, <2>2
<1>3. ASSUME NEW r \in Requests, UpdateWrite(r)
      PROVE  users'[v].permissions = ROLE_DEFAULT_PERMISSIONS[users'[v].role]
  <2> DEFINE u == req[r].id
             d == req[r].dto
  <2>1. u \in Users /\ Exists(u)
    BY <1>3, ActiveRequest DEF UpdateWrite, Active
  <2>2. users' = [users EXCEPT ![u] = Updated(users[u], d)] /\ Tune(u, d.role, d.permissions)
    BY <1>3 DEF UpdateWrite
  <2> HIDE DEF u, d
  <2>3. CASE v # u
    <3>1. users'[v] = users[v] /\ v \notin tuned
      BY <2>1, <2>2, <2>3 DEF Tune, TypeOK
    <3> QED
      BY <3>1 DEF PermissionsFollowRole, Exists
  <2>4. CASE v = u
    <3>1. users'[v] = Updated(users[u], d)
      BY <2>1, <2>2, <2>4 DEF TypeOK
    <3>2. d.permissions = None /\ (d.role = None => v \notin tuned)
      BY <2>2, <2>4 DEF Tune
    <3>3. CASE d.role = None
      <4>1. /\ users'[v].role = users[u].role
            /\ users'[v].permissions = users[u].permissions
        BY <3>1, <3>2, <3>3 DEF Updated
      <4> QED
        BY <2>1, <2>4, <3>2, <3>3, <4>1 DEF PermissionsFollowRole
    <3>4. CASE d.role # None
      BY <3>1, <3>2, <3>4 DEF Updated, PermissionsFor
    <3> QED
      BY <3>3, <3>4
  <2> QED
    BY <2>3, <2>4
<1> QED
  BY <1>1, <1>2, <1>3
  DEF Next, vars, SignAccessToken, AccessTokenExpires, UpdateRead, UpdateCount, Fail

\* For any interleaving of creations and updates, a user whose list nobody set
\* by hand has the defaults of their present role (update's re-seeding).
THEOREM PermissionsOfRole == Spec => []PermissionsFollowRole
<1>1. Init => TypeOK /\ PermissionsFollowRole
  <2>1. Init => PermissionsFollowRole
    BY DEF Init, PermissionsFollowRole, Exists, ROLE_DEFAULT_PERMISSIONS
  <2>2. Init => TypeOK
    BY DEF Init, TypeOK, RequestState, UserRow, Roles, Strings
  <2> QED
    BY <2>1, <2>2
<1> QED
  BY <1>1, TypeStep, DefaultsStep, PTL DEF Spec

-----------------------------------------------------------------------------
(* The last admin and one's own account *)

\* What the checks of an update established holds until another update writes:
\* when the edit takes an active admin away, there is one besides its target.
AnotherAdmin ==
  \A r \in Requests :
    req[r].pc = "write" /\ ~req[r].overlapped /\ DropsThisAdmin(users[req[r].id], req[r].dto) =>
      \E v \in ActiveAdmins : v # req[r].id

\* An update of oneself does not switch the account off, and it names no other
\* role than the one the row had when it was read.
SelfAllowed ==
  \A r \in Requests :
    req[r] # Idle /\ req[r].actor = req[r].id =>
      /\ req[r].dto.isActive # FALSE
      /\ req[r].overlapped \/ req[r].dto.role \in {None, users[req[r].id].role}

IInv == TypeOK /\ AnotherAdmin /\ SelfAllowed

\* A set of users with more than one member has one besides any given user.
LEMMA Besides ==
  ASSUME NEW S \in SUBSET Users, NEW u, Cardinality(S) > 1
  PROVE  \E v \in S : v # u
<1> SUFFICES ASSUME S \subseteq {u} PROVE FALSE
  OBVIOUS
<1>1. IsFiniteSet({u}) /\ Cardinality({u}) = 1
  BY FS_Singleton
<1>2. Cardinality(S) <= 1
  BY <1>1, FS_Subset
<1>3. Cardinality(S) \in Nat
  BY UsersAssumption, FS_Subset, FS_CardinalityType
<1> QED
  BY <1>2, <1>3

\* A step that does not touch the users' rows keeps both conditions when every
\* request it changes is freed or was checked by that step.
LEMMA RequestsStep ==
  ASSUME IInv, users' = users,
         \A q \in Requests : \/ req'[q] = req[q]
                             \/ req'[q] = Idle
  PROVE  AnotherAdmin' /\ SelfAllowed'
<1>1. ActiveAdmins' = ActiveAdmins
  BY DEF ActiveAdmins, Exists
<1>2. AnotherAdmin'
  BY <1>1 DEF IInv, AnotherAdmin, DropsThisAdmin, Idle
<1>3. SelfAllowed'
  BY DEF IInv, SelfAllowed, Idle
<1> QED
  BY <1>2, <1>3

\* The inductive step of the two conditions.
LEMMA ChecksStep == IInv /\ [Next]_vars => AnotherAdmin' /\ SelfAllowed'
<1> SUFFICES ASSUME IInv, [Next]_vars PROVE AnotherAdmin' /\ SelfAllowed'
  OBVIOUS
<1> USE DEF IInv
<1>1. CASE users' = users /\ req' = req
  BY <1>1, RequestsStep
<1>2. ASSUME NEW a \in Users, NEW u \in Users, NEW role \in Roles, NEW list \in Lists,
             Create(a, u, role, list)
      PROVE  AnotherAdmin' /\ SelfAllowed'
  <2>1. req' = req /\ \A v \in Users : Exists(v) => users'[v] = users[v]
    BY <1>2 DEF Create, TypeOK, Exists
  <2>2. ActiveAdmins \subseteq ActiveAdmins'
    BY <2>1, NoneAssumption DEF ActiveAdmins, Exists
  <2>3. \A r \in Requests : req[r] # Idle => users'[req[r].id] = users[req[r].id]
    BY <2>1, ActiveRequest DEF Active
  <2>4. AnotherAdmin'
    BY <2>1, <2>2, <2>3, ActiveRequest DEF AnotherAdmin, DropsThisAdmin
  <2>5. SelfAllowed'
    BY <2>1, <2>3 DEF SelfAllowed
  <2> QED
    BY <2>4, <2>5
<1>3. ASSUME NEW r \in Requests, NEW a \in Users, NEW u \in Users, NEW d \in Edits,
             UpdateRead(r, a, u, d)
      PROVE  AnotherAdmin' /\ SelfAllowed'
  <2> DEFINE s == [pc |-> IF DropsThisAdmin(users[u], d) THEN "count" ELSE "write",
                   actor |-> a, id |-> u, dto |-> d, overlapped |-> FALSE]
  <2>1. /\ s.pc = "write" => ~DropsThisAdmin(users[u], d)
        /\ s.actor = a /\ s.id = u /\ s.dto = d
    OBVIOUS
  <2>2. users' = users /\ req' = [req EXCEPT ![r] = s]
    BY <1>3 DEF UpdateRead
  <2> HIDE DEF s
  <2>3. req'[r] = s /\ \A q \in Requests : q # r => req'[q] = req[q]
    BY <2>2 DEF TypeOK
  <2>4. ActiveAdmins' = ActiveAdmins
    BY <2>2 DEF ActiveAdmins, Exists
  <2>5. AnotherAdmin'
    BY <2>1, <2>2, <2>3, <2>4 DEF AnotherAdmin, DropsThisAdmin
  <2>6. a = u => d.isActive # FALSE /\ d.role \in {None, users[u].role}
    BY <1>3 DEF UpdateRead, SelfLockout
  <2>7. SelfAllowed'
    BY <2>1, <2>2, <2>3, <2>6 DEF SelfAllowed
  <2> QED
    BY <2>5, <2>7
<1>4. ASSUME NEW r \in Requests, UpdateCount(r)
      PROVE  AnotherAdmin' /\ SelfAllowed'
  <2>1. users' = users
    BY <1>4 DEF UpdateCount
  <2>2. CASE Cardinality(ActiveAdmins) <= 1
    <3>1. req' = [req EXCEPT ![r] = Idle]
      BY <1>4, <2>2 DEF UpdateCount
    <3> QED
      BY <2>1, <3>1, RequestsStep DEF TypeOK
  <2>3. CASE ~(Cardinality(ActiveAdmins) <= 1)
    <3>1. ActiveAdmins \in SUBSET Users
      BY DEF ActiveAdmins
    <3>2. Cardinality(ActiveAdmins) \in Nat
      BY <3>1, UsersAssumption, FS_Subset, FS_CardinalityType
    <3>3. \E v \in ActiveAdmins : v # req[r].id
      BY <2>3, <3>1, <3>2, Besides
    <3>4. req[r] \in Active
      BY <1>4, ActiveRequest DEF UpdateCount
    <3> DEFINE s == [req[r] EXCEPT !.pc = "write"]
    <3>5. /\ s.id = req[r].id /\ s.actor = req[r].actor
          /\ s.dto = req[r].dto /\ s.overlapped = req[r].overlapped
      BY <3>4 DEF Active
    <3>6. req' = [req EXCEPT ![r] = s]
      BY <1>4, <2>3 DEF UpdateCount
    <3> HIDE DEF s
    <3>7. req'[r] = s /\ \A q \in Requests : q # r => req'[q] = req[q]
      BY <3>6 DEF TypeOK
    <3>8. ActiveAdmins' = ActiveAdmins
      BY <2>1 DEF ActiveAdmins, Exists
    <3>9. AnotherAdmin'
      BY <2>1, <3>3, <3>5, <3>7, <3>8 DEF AnotherAdmin, DropsThisAdmin
    <3>10. req[r] # Idle
      BY <1>4, ActiveRequest DEF UpdateCount
    <3>11. ASSUME NEW q \in Requests, req'[q] # Idle, req'[q].actor = req'[q].id
           PROVE  /\ req'[q].dto.isActive # FALSE
                  /\ req'[q].overlapped \/ req'[q].dto.role \in {None, users[req'[q].id].role}
      <4>1. CASE q = r
        BY <3>5, <3>7, <3>10, <3>11, <4>1 DEF SelfAllowed
      <4>2. CASE q # r
        BY <3>7, <3>11, <4>2 DEF SelfAllowed
      <4> QED
        BY <4>1, <4>2
    <3>12. SelfAllowed'
      BY <2>1, <3>11 DEF SelfAllowed
    <3> QED
      BY <3>9, <3>12
  <2> QED
    BY <2>2, <2>3
<1>5. ASSUME NEW r \in Requests, UpdateWrite(r)
      PROVE  AnotherAdmin' /\ SelfAllowed'
  <2>1. ASSUME NEW q \in Requests, req'[q] # Idle
        PROVE  /\ req[q] # Idle
               /\ req'[q].overlapped = TRUE
               /\ req'[q].actor = req[q].actor /\ req'[q].id = req[q].id
               /\ req'[q].dto = req[q].dto
    <3>1. req[q] # Idle /\ req'[q] = [req[q] EXCEPT !.overlapped = TRUE]
      BY <1>5, <2>1 DEF UpdateWrite
    <3>2. req[q] \in Active
      BY <3>1, ActiveRequest
    <3> QED
      BY <3>1, <3>2 DEF Active
  <2>2. AnotherAdmin'
    <3>1. ASSUME NEW q \in Requests, req'[q].pc = "write" PROVE req'[q].overlapped = TRUE
      <4>1. req'[q] # Idle
        BY <3>1 DEF Idle
      <4> QED
        BY <2>1, <4>1
    <3> QED
      BY <3>1 DEF AnotherAdmin
  <2>3. SelfAllowed'
    BY <2>1 DEF SelfAllowed
  <2> QED
    BY <2>2, <2>3
<1>6. ASSUME NEW r \in Requests, Fail(r)
      PROVE  AnotherAdmin' /\ SelfAllowed'
  BY <1>6, RequestsStep DEF Fail, TypeOK
<1> QED
  BY <1>1, <1>2, <1>3, <1>4, <1>5, <1>6
  DEF Next, vars, SignAccessToken, AccessTokenExpires

\* IInv holds in every reachable state.
THEOREM Invariance == Spec => []IInv
<1>1. Init => IInv
  <2>1. Init => TypeOK
    BY DEF Init, TypeOK, RequestState, UserRow, Roles, Strings
  <2>2. Init => AnotherAdmin /\ SelfAllowed
    BY DEF Init, AnotherAdmin, SelfAllowed, Idle
  <2> QED
    BY <2>1, <2>2 DEF IInv
<1>2. IInv /\ [Next]_vars => IInv'
  BY TypeStep, ChecksStep DEF IInv
<1> QED
  BY <1>1, <1>2, PTL DEF Spec

\* In a step of UpdateWrite(r), every row but the target's stays.
LEMMA WrittenRow ==
  ASSUME TypeOK, NEW r \in Requests, UpdateWrite(r)
  PROVE  /\ req[r] \in Active /\ Exists(req[r].id)
         /\ users[req[r].id] \in UserRow
         /\ users'[req[r].id] = Updated(users[req[r].id], req[r].dto)
         /\ \A v \in Users : v # req[r].id => users'[v] = users[v]
<1>1. req[r] \in Active /\ Exists(req[r].id)
  BY ActiveRequest DEF UpdateWrite
<1>2. users' = [users EXCEPT ![req[r].id] = Updated(users[req[r].id], req[r].dto)]
  BY DEF UpdateWrite
<1> QED
  BY <1>1, <1>2 DEF TypeOK, Active, Exists

\* An update that no other write came into never takes the last active admin
\* away (assertAnAdminRemains), for any number of users and of updates.
THEOREM AdminKept == Spec => LastAdminKept
<1>1. ASSUME IInv, NEW r \in Requests,
             UpdateWrite(r), ~req[r].overlapped, ActiveAdmins # {}
      PROVE  ActiveAdmins' # {}
  <2> DEFINE u == req[r].id
             d == req[r].dto
  <2> USE DEF IInv
  <2>1. /\ u \in Users /\ d \in Edits /\ d \in UpdateUserDto
        /\ Exists(u) /\ users[u] \in UserRow
        /\ users'[u] = Updated(users[u], d)
        /\ \A v \in Users : v # u => users'[v] = users[v]
    BY <1>1, WrittenRow, EditsAssumption DEF Active
  <2>2. PICK w \in ActiveAdmins : DropsThisAdmin(users[u], d) => w # u
    BY <1>1 DEF AnotherAdmin, UpdateWrite
  <2> HIDE DEF u, d
  <2>3. w \in Users /\ Exists(w) /\ users[w].role = "admin" /\ users[w].isActive
    BY DEF ActiveAdmins
  <2>4. CASE w # u
    BY <2>1, <2>3, <2>4 DEF ActiveAdmins, Exists
  <2>5. CASE w = u
    <3>1. d.isActive # FALSE /\ d.role \notin Roles \ {"admin"}
      BY <2>2, <2>3, <2>5 DEF DropsThisAdmin
    <3>2. d.role \in {None, "admin"} /\ d.isActive \in {None, TRUE}
      BY <2>1, <3>1 DEF UpdateUserDto
    <3>3. Updated(users[u], d) \in UserRow
      BY <2>1, UpdatedRow
    <3>4. Updated(users[u], d).role = "admin" /\ Updated(users[u], d).isActive
      BY <2>3, <2>5, <3>2 DEF Updated
    <3> QED
      BY <2>1, <3>3, <3>4, NoneAssumption DEF ActiveAdmins, Exists
  <2> QED
    BY <2>4, <2>5
<1>2. IInv /\ [Next]_vars =>
        [\A r \in Requests :
           UpdateWrite(r) /\ ~req[r].overlapped /\ ActiveAdmins # {} => ActiveAdmins' # {}]_vars
  BY <1>1
<1> QED
  BY <1>2, Invariance, PTL DEF Spec, LastAdminKept

\* An update that no other write came into leaves its author active and in the
\* role they had (assertNotSelfLockout).
THEOREM AccountKept == Spec => OwnAccountKept
<1>1. ASSUME IInv, NEW r \in Requests, NEW u \in Users,
             UpdateWrite(r), ~req[r].overlapped, req[r].actor = req[r].id, u = req[r].id
      PROVE  /\ users'[u].role = users[u].role
             /\ users[u].isActive => users'[u].isActive
  <2>1. users'[u] = Updated(users[u], req[r].dto) /\ req[r].dto \in UpdateUserDto
    BY <1>1, WrittenRow, EditsAssumption DEF IInv, Active
  <2>2. req[r].dto.isActive # FALSE /\ req[r].dto.role \in {None, users[u].role}
    BY <1>1, ActiveRequest DEF IInv, SelfAllowed, UpdateWrite
  <2>3. req[r].dto.isActive \in {None, TRUE}
    BY <2>1, <2>2 DEF UpdateUserDto
  <2> DEFINE d == req[r].dto
             row == users[u]
  <2> HIDE DEF d, row
  <2>4. /\ Updated(row, d).role = IF d.role # None THEN d.role ELSE row.role
        /\ Updated(row, d).isActive = IF d.isActive # None THEN d.isActive ELSE row.isActive
    BY DEF Updated
  <2>5. users'[u].role = users[u].role
    BY <2>1, <2>2, <2>4 DEF d, row
  <2>6. users'[u].isActive = TRUE \/ users'[u].isActive = users[u].isActive
    BY <2>1, <2>3, <2>4 DEF d, row
  <2> QED
    BY <2>5, <2>6
<1>2. IInv /\ [Next]_vars =>
        [\A r \in Requests :
           UpdateWrite(r) /\ ~req[r].overlapped /\ req[r].actor = req[r].id =>
             \A u \in Users : u = req[r].id =>
               /\ users'[u].role = users[u].role
               /\ users[u].isActive => users'[u].isActive]_vars
  BY <1>1
<1> QED
  BY <1>2, Invariance, PTL DEF Spec, OwnAccountKept

=============================================================================
