---------------------------- MODULE TenantAccess ----------------------------
(***************************************************************************)
(* TenantPrismaService, TenantMiddleware, TenantContextService, TenantGuard *)
(* and the tenant_isolation policies.  Requests share a pool of database   *)
(* connections; each repository call borrows one for a transaction that    *)
(* first sets app.current_tenant_id and then runs its statements.  Every   *)
(* query is a step, and so is every row that a statement writes (updateMany *)
(* and deleteMany lock one row after the other), and other requests come   *)
(* between any two.  A request that is refused changes nothing.            *)
(***************************************************************************)
EXTENDS Naturals

CONSTANTS
  Requests,   \* slots for requests being served at one time
  Conns,      \* connections of the pool
  Tenants,    \* hotels
  Rows,       \* primary keys (UUIDs) of the tables that carry a tenant_id
  Malformed,  \* an x-tenant-id header that is not a UUID
  Empty,      \* the empty string
  Unwritten,  \* what a transaction has done to a row it has not written
  None        \* no header, no row, no request; the setting was never made

ASSUME ValuesAssumption ==
  /\ {Malformed, Empty, None} \intersect Tenants = {}
  /\ Malformed # Empty /\ Malformed # None /\ Empty # None
  /\ Unwritten \notin Tenants \union {None}
  /\ None \notin Requests

VARIABLES
  owner,    \* owner[i]: the tenant_id of the committed row i
  setting,  \* setting[c]: app.current_tenant_id on connection c
  by,       \* by[c]: the request whose transaction c runs
  pending,  \* pending[c][i]: what the transaction on c has made of row i
  req,      \* req[r]: where request r stands, and for whom it works
  seen      \* history: seen[r], the last answer r was given, a set of none or one

vars == <<owner, setting, by, pending, req, seen>>

\* A row as a query returns it.
Row == [row : Rows, owner : Tenants]

NothingWritten == [i \in Rows |-> Unwritten]

\* caller is the tenant of the access token, tenant the context the code sets.
RequestState ==
  [pc : {"idle", "ready", "begun", "scoped"},
   caller : Tenants \union {None},
   tenant : Tenants \union {Malformed, None}]

Idle == [pc |-> "idle", caller |-> None, tenant |-> None]

Init ==
  /\ owner \in [Rows -> Tenants \union {None}]
  /\ setting = [c \in Conns |-> None]
  /\ by = [c \in Conns |-> None]
  /\ pending = [c \in Conns |-> NothingWritten]
  /\ req = [r \in Requests |-> Idle]
  /\ seen = [r \in Requests |-> {}]

-----------------------------------------------------------------------------
(* Which tenant a request works for *)

Start(r, caller, tenant) ==
  /\ req[r].pc = "idle"
  /\ req' = [req EXCEPT ![r] = [pc |-> "ready", caller |-> caller, tenant |-> tenant]]
  /\ seen' = [seen EXCEPT ![r] = {}]
  /\ UNCHANGED <<owner, setting, by, pending>>

\* Mutant: the guard only asks for a header.
HeaderPresent(token, header) == header # None

\* TenantGuard: a header (else 400) that names the token's tenant (else 403).
TenantGuardPasses(token, header) == header # None /\ header = token

Authenticated(r, token, header) ==
  /\ TenantGuardPasses(token, header)
  /\ Start(r, token, header)

\* Public routes: login works for the header's tenant, which nobody has looked
\* at; refresh and logout for the tenant in the refresh token they verified.
Public(r, header) ==
  /\ header # None
  /\ Start(r, None, header)

-----------------------------------------------------------------------------
(* The policy *)

\* Mutant: the cast of the first migration, without NULLIF.
CastOnly(s) == IF s = Empty THEN Malformed ELSE s

\* NULLIF(current_setting(...), '')::uuid, with NULL as None; the cast of
\* something that is not a UUID raises an error.
PolicyTenant(s) == IF s = Empty THEN None ELSE s

Raises(c) == PolicyTenant(setting[c]) = Malformed

\* Mutant: the table has no policy.
AnyRow(c, t) == t # None

\* USING and WITH CHECK: a comparison with NULL is not true.
PolicyAdmits(c, t) == t # None /\ PolicyTenant(setting[c]) = t

\* tenant_id of row i as the transaction on c finds it.
Found(c, i) == IF pending[c][i] = Unwritten THEN owner[i] ELSE pending[c][i]

Visible(c) == {i \in Rows : PolicyAdmits(c, Found(c, i))}

-----------------------------------------------------------------------------
(* withTenant *)

Goto(r, pc) == req' = [req EXCEPT ![r].pc = pc]

Begin(r, c) ==
  /\ req[r].pc = "ready"
  /\ by[c] = None
  /\ by' = [by EXCEPT ![c] = r]
  /\ Goto(r, "begun")
  /\ UNCHANGED <<owner, setting, pending, seen>>

\* set_config('app.current_tenant_id', tenantId, true)
SetConfig(r, c) ==
  /\ req[r].pc = "begun" /\ by[c] = r
  /\ setting' = [setting EXCEPT ![c] = req[r].tenant]
  /\ Goto(r, "scoped")
  /\ UNCHANGED <<owner, by, pending, seen>>

InScope(r, c) == req[r].pc = "scoped" /\ by[c] = r /\ ~Raises(c)

\* findFirst, findMany, count: what the policy lets through.
Read(r, c) ==
  /\ InScope(r, c)
  /\ seen' = [seen EXCEPT ![r] = {{[row |-> i, owner |-> Found(c, i)] : i \in Visible(c)}}]
  /\ UNCHANGED <<owner, setting, by, pending, req>>

\* A row that another transaction has written and not committed is locked.
Unlocked(c, i) == \A d \in Conns \ {c} : pending[d][i] = Unwritten

Pend(c, i, t) ==
  /\ Unlocked(c, i)
  /\ pending' = [pending EXCEPT ![c] = [pending[c] EXCEPT ![i] = t]]
  /\ UNCHANGED <<owner, setting, by, req, seen>>

\* create stamps the row with the context's tenant; WITH CHECK tests the stamp.
Insert(r, c, i) ==
  /\ InScope(r, c)
  /\ Found(c, i) = None
  /\ PolicyAdmits(c, req[r].tenant)
  /\ Pend(c, i, req[r].tenant)

\* updateMany and deleteMany come to a row that they select and the policy
\* admits; any other row they leave alone.
Update(r, c, i) == InScope(r, c) /\ i \in Visible(c) /\ Pend(c, i, Found(c, i))

Delete(r, c, i) == InScope(r, c) /\ i \in Visible(c) /\ Pend(c, i, None)

\* A local setting that ends leaves the empty string on the connection.
SettingReverted(s) == IF s = None THEN None ELSE Empty

Release(c) ==
  /\ setting' = [setting EXCEPT ![c] = SettingReverted(setting[c])]
  /\ by' = [by EXCEPT ![c] = None]
  /\ pending' = [pending EXCEPT ![c] = NothingWritten]

\* Mutant: deletions are a transaction of their own, which may have failed.
WithoutDeletions(c, i) ==
  IF pending[c][i] = None /\ \E j \in Rows : pending[c][j] \in Tenants THEN owner[i] ELSE Found(c, i)

Committed(c, i) == Found(c, i)

Commit(r, c) ==
  /\ InScope(r, c)
  /\ owner' = [i \in Rows |-> Committed(c, i)]
  /\ Release(c)
  /\ Goto(r, "ready")
  /\ UNCHANGED seen

\* The policy raises, a statement throws, the transaction times out, or the
\* client goes away: ROLLBACK, and the request is answered with an error.
Rollback(r, c) ==
  /\ by[c] = r
  /\ Release(c)
  /\ req' = [req EXCEPT ![r] = Idle]
  /\ UNCHANGED <<owner, seen>>

Answer(r) ==
  /\ req[r].pc = "ready"
  /\ req' = [req EXCEPT ![r] = Idle]
  /\ UNCHANGED <<owner, setting, by, pending, seen>>

\* The pool replaces a connection: the new session never had the setting.
Reconnect(c) ==
  /\ by[c] = None
  /\ setting' = [setting EXCEPT ![c] = None]
  /\ UNCHANGED <<owner, by, pending, req, seen>>

Transaction(r, c) ==
  \/ Begin(r, c)
  \/ SetConfig(r, c)
  \/ Read(r, c)
  \/ \E i \in Rows : Insert(r, c, i) \/ Update(r, c, i) \/ Delete(r, c, i)
  \/ Commit(r, c)
  \/ Rollback(r, c)

Next ==
  \/ \E r \in Requests :
       \/ \E header \in Tenants \union {Malformed, None} :
            Public(r, header) \/ \E token \in Tenants : Authenticated(r, token, header)
       \/ \E c \in Conns : Transaction(r, c)
       \/ Answer(r)
  \/ \E c \in Conns : Reconnect(c)

Spec == Init /\ [][Next]_vars

-----------------------------------------------------------------------------
(* Properties *)

\* The shape of the state; a transaction belongs to one request, which knows it.
TypeOK ==
  /\ owner \in [Rows -> Tenants \union {None}]
  /\ setting \in [Conns -> Tenants \union {Malformed, Empty, None}]
  /\ by \in [Conns -> Requests \union {None}]
  /\ pending \in [Conns -> [Rows -> Tenants \union {None, Unwritten}]]
  /\ req \in [Requests -> RequestState]
  /\ seen \in [Requests -> SUBSET SUBSET Row]
  /\ \A c \in Conns : by[c] # None => req[by[c]].pc \in {"begun", "scoped"}
  /\ \A c, d \in Conns : by[c] # None /\ by[c] = by[d] => c = d

\* No tenant, no data and no error: a query on a connection whose transaction
\* has not set a tenant, or outside any transaction, finds no row and does not
\* raise, whichever requests the pool has served on that connection before.
FailClosed ==
  \A c \in Conns :
    (by[c] = None \/ req[by[c]].pc = "begun") => Visible(c) = {} /\ ~Raises(c)

\* For whom a request may act: its token's tenant, on a public route the
\* tenant the context was given.
Principal(r) == IF req[r].caller # None THEN req[r].caller ELSE req[r].tenant

\* Reads: nobody is given a row of another tenant, whatever the connections
\* were used for before and whatever else is in progress on the pool.
OnlyOwnRows ==
  \A r \in Requests : req[r].pc # "idle" => \A w \in UNION seen[r] : w.owner = Principal(r)

\* Writes: a row appears, is deleted, or stays with its tenant; it never moves
\* to another one, and who makes it appear or go away is a request of that tenant.
WritesStayHome ==
  [][\A i \in Rows :
       owner'[i] # owner[i] =>
         \E r \in Requests : {owner[i], owner'[i]} = {None, Principal(r)}
                             /\ req[r].pc = "scoped" /\ req'[r].pc = "ready"]_vars

\* The stores of HotelStores, as the tables and the connections hold them.
HotelRows == [h \in Tenants |-> {i \in Rows : owner[i] = h}]

Serving(r) == req[r].pc # "idle" /\ Principal(r) \in Tenants

Served == [r \in Requests |-> IF Serving(r) THEN Principal(r) ELSE None]

\* Row i has an uncommitted write of request r that leaves it with tenant t.
Pends(r, i, t) == \E c \in Conns : by[c] = r /\ pending[c][i] = t

Written == [r \in Requests |-> {i \in Rows : \E t \in Tenants : Pends(r, i, t)}]

Erased == [r \in Requests |-> {i \in Rows : Pends(r, i, None)}]

Given ==
  [r \in Requests |-> IF Serving(r) THEN {{w.row : w \in answer} : answer \in seen[r]} ELSE {}]

Stores == INSTANCE HotelStores WITH
  Hotels <- Tenants, Keys <- Rows,
  store <- HotelRows, serves <- Served, written <- Written, erased <- Erased, given <- Given

\* Isolation as a whole: one table with policies, reached through one pool,
\* behaves as a store of its own for every hotel.  A request finds all of its
\* hotel's rows and no other, with its own changes and nobody else's; however
\* many rows a transaction has made, changed and deleted, all of it is in that
\* store at once with the commit, and a failure leaves nothing of it behind.
ImplementsStores == Stores!Spec

=============================================================================
