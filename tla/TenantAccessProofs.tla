------------------------- MODULE TenantAccessProofs -------------------------
(***************************************************************************)
(* What TLAPS proves about TenantAccess: one inductive invariant, and from *)
(* it that a connection without a tenant shows nothing, that a request is  *)
(* given its own tenant's rows only, that a row never changes hands, and   *)
(* that the whole behaves as a store of its own for every hotel.           *)
(***************************************************************************)
EXTENDS TenantAccess, TLAPS

-----------------------------------------------------------------------------
(* The inductive invariant *)

InTenantScope(c) == by[c] # None /\ req[by[c]].pc = "scoped"

\* The setting is the tenant of the request in scope and nothing outside a scope.
Scoped ==
  \A c \in Conns :
    /\ InTenantScope(c) => setting[c] = req[by[c]].tenant
    /\ ~InTenantScope(c) => setting[c] \in {None, Empty}

\* A request with a token works for the token's tenant.
Guarded ==
  \A r \in Requests : req[r].caller # None => req[r].tenant = req[r].caller

\* An uncommitted write is made in a scope and is on a row of that tenant, or
\* on no row yet, and leaves it so.
WriteAtHome ==
  \A c \in Conns, i \in Rows : pending[c][i] # Unwritten =>
    /\ InTenantScope(c)
    /\ req[by[c]].tenant \in Tenants
    /\ owner[i] \in {None, req[by[c]].tenant}
    /\ pending[c][i] \in {None, req[by[c]].tenant}

\* No row has uncommitted writes of two transactions.
Locking ==
  \A c, d \in Conns, i \in Rows :
    pending[c][i] # Unwritten /\ pending[d][i] # Unwritten => c = d

IInv ==
  /\ TypeOK
  /\ Scoped
  /\ Guarded
  /\ OnlyOwnRows
  /\ WriteAtHome
  /\ Locking

-----------------------------------------------------------------------------
(* The policy *)

\* What the policy admits belongs to the tenant the connection is set to.
LEMMA AdmittedIsSet ==
  ASSUME NEW c \in Conns, NEW t, PolicyAdmits(c, t)
  PROVE  t # None /\ setting[c] = t
BY DEF PolicyAdmits, PolicyTenant

\* In a scope the policy admits a tenant, and that of the request.
LEMMA AdmittedInScope ==
  ASSUME TypeOK, Scoped, NEW r \in Requests, NEW c \in Conns, InScope(r, c),
         NEW t, PolicyAdmits(c, t)
  PROVE  t \in Tenants /\ t = req[r].tenant
<1>1. t # None /\ setting[c] = t
  BY AdmittedIsSet
<1>2. InTenantScope(c) /\ by[c] = r
  BY ValuesAssumption DEF InScope, InTenantScope
<1>3. t # Empty /\ t # Malformed
  BY <1>1 DEF InScope, Raises, PolicyAdmits, PolicyTenant
<1> QED
  BY <1>1, <1>2, <1>3 DEF TypeOK, Scoped

\* The tenant a row is found to have is a tenant or None.
LEMMA FoundType ==
  ASSUME TypeOK, NEW c \in Conns, NEW i \in Rows
  PROVE  Found(c, i) \in Tenants \union {None}
BY DEF TypeOK, Found

-----------------------------------------------------------------------------
(* The steps *)

\* A request that begins or ends on its own is in no transaction.
LEMMA OutsideKeeps ==
  ASSUME IInv, NEW r \in Requests,
         req[r].pc \in {"idle", "ready"},
         req' \in [Requests -> RequestState],
         req'[r].pc \in {"idle", "ready"},
         \A q \in Requests \ {r} : req'[q] = req[q],
         req'[r].caller # None => req'[r].tenant = req'[r].caller,
         req'[r].pc # "idle" => \A w \in UNION seen'[r] : w.owner = Principal(r)',
         seen' \in [Requests -> SUBSET SUBSET Row],
         \A q \in Requests \ {r} : seen'[q] = seen[q],
         UNCHANGED <<owner, setting, by, pending>>
  PROVE  IInv'
<1>1. \A c \in Conns : by[c] # r
  BY ValuesAssumption DEF IInv, TypeOK
<1>2. \A c \in Conns : by[c] # None => by[c] \in Requests \ {r} /\ req'[by[c]] = req[by[c]]
  BY <1>1 DEF IInv, TypeOK
<1>3. TypeOK'
  BY <1>2 DEF IInv, TypeOK
<1>4. \A c \in Conns : InTenantScope(c)' <=> InTenantScope(c)
  BY <1>2 DEF InTenantScope
<1>5. Scoped'
  BY <1>2, <1>4 DEF IInv, Scoped, InTenantScope
<1>6. Guarded'
  BY DEF IInv, Guarded
<1>7. OnlyOwnRows'
  BY DEF IInv, OnlyOwnRows, Principal
<1>8. WriteAtHome' /\ Locking'
  BY <1>2, <1>4 DEF IInv, WriteAtHome, Locking, InTenantScope
<1> QED
  BY <1>3, <1>5, <1>6, <1>7, <1>8 DEF IInv

\* A request starts with no rows; the guard has compared header and token.
LEMMA StartKeeps ==
  ASSUME IInv, NEW r \in Requests,
         NEW caller \in Tenants \union {None},
         NEW tenant \in Tenants \union {Malformed, None},
         caller # None => tenant = caller,
         Start(r, caller, tenant)
  PROVE  IInv'
<1>1. [pc |-> "ready", caller |-> caller, tenant |-> tenant] \in RequestState
  BY DEF RequestState
<1>2. req' \in [Requests -> RequestState] /\ seen' \in [Requests -> SUBSET SUBSET Row]
  BY <1>1 DEF Start, IInv, TypeOK
<1>3. /\ req'[r] = [pc |-> "ready", caller |-> caller, tenant |-> tenant]
      /\ seen'[r] = {}
      /\ \A q \in Requests \ {r} : req'[q] = req[q] /\ seen'[q] = seen[q]
  BY DEF Start, IInv, TypeOK
<1> QED
  BY <1>2, <1>3, OutsideKeeps DEF Start

\* An answer ends a request and keeps the invariant.
LEMMA AnswerKeeps ==
  ASSUME IInv, NEW r \in Requests, Answer(r)
  PROVE  IInv'
<1>1. Idle \in RequestState
  BY DEF Idle, RequestState
<1>2. req' \in [Requests -> RequestState] /\ seen' \in [Requests -> SUBSET SUBSET Row]
  BY <1>1 DEF Answer, IInv, TypeOK
<1>3. req'[r] = Idle /\ \A q \in Requests \ {r} : req'[q] = req[q] /\ seen'[q] = seen[q]
  BY DEF Answer, IInv, TypeOK
<1>4. req'[r].pc = "idle" /\ req'[r].caller = None
  BY <1>3 DEF Idle
<1> QED
  BY <1>2, <1>3, <1>4, OutsideKeeps DEF Answer

\* A request that goes on keeps its tenants, and the others do not move.
LEMMA GotoEffect ==
  ASSUME TypeOK, NEW r \in Requests, NEW pc \in {"idle", "ready", "begun", "scoped"}, Goto(r, pc)
  PROVE  /\ req'[r].pc = pc /\ req'[r].caller = req[r].caller /\ req'[r].tenant = req[r].tenant
         /\ \A q \in Requests \ {r} : req'[q] = req[q]
         /\ req' \in [Requests -> RequestState]
<1>1. req \in [Requests -> RequestState]
  BY DEF TypeOK
<1>2. req'[r] = [req[r] EXCEPT !.pc = pc] /\ \A q \in Requests \ {r} : req'[q] = req[q]
  BY <1>1 DEF Goto
<1>3. req'[r] \in RequestState
  BY <1>1, <1>2 DEF RequestState
<1>4. req' = [req EXCEPT ![r] = req'[r]]
  BY <1>1 DEF Goto
<1> QED
  BY <1>1, <1>2, <1>3, <1>4 DEF RequestState

\* A transaction begins on a free connection.
LEMMA BeginKeeps ==
  ASSUME IInv, NEW r \in Requests, NEW c \in Conns, Begin(r, c)
  PROVE  IInv'
<1>1. \A d \in Conns : by[d] # r
  BY ValuesAssumption DEF IInv, TypeOK, Begin
<1>2. /\ req'[r].pc = "begun" /\ req'[r].caller = req[r].caller /\ req'[r].tenant = req[r].tenant
      /\ \A q \in Requests \ {r} : req'[q] = req[q]
      /\ req' \in [Requests -> RequestState]
  BY GotoEffect DEF Begin, IInv
<1>3. by'[c] = r /\ \A d \in Conns \ {c} : by'[d] = by[d]
  BY DEF Begin, IInv, TypeOK
<1>4. TypeOK'
  BY <1>1, <1>2, <1>3 DEF IInv, TypeOK, Begin
<1>5. \A d \in Conns : (InTenantScope(d)' <=> InTenantScope(d))
                       /\ (InTenantScope(d) => d # c /\ req'[by'[d]] = req[by[d]])
  BY <1>1, <1>2, <1>3 DEF InTenantScope, IInv, TypeOK, Begin
<1>6. Scoped'
  BY <1>5 DEF IInv, Scoped, Begin
<1>7. Guarded' /\ OnlyOwnRows'
  BY <1>2 DEF IInv, Guarded, OnlyOwnRows, Principal, Begin
<1>8. WriteAtHome' /\ Locking'
  BY <1>5 DEF IInv, WriteAtHome, Locking, Begin
<1> QED
  BY <1>4, <1>6, <1>7, <1>8 DEF IInv

\* The setting of a transaction is its request's tenant.
LEMMA SetConfigKeeps ==
  ASSUME IInv, NEW r \in Requests, NEW c \in Conns, SetConfig(r, c)
  PROVE  IInv'
<1>1. \A d \in Conns \ {c} : by[d] # r
  BY ValuesAssumption DEF IInv, TypeOK, SetConfig
<1>2. /\ req'[r].pc = "scoped" /\ req'[r].caller = req[r].caller /\ req'[r].tenant = req[r].tenant
      /\ \A q \in Requests \ {r} : req'[q] = req[q]
      /\ req' \in [Requests -> RequestState]
  BY GotoEffect DEF SetConfig, IInv
<1>3. setting'[c] = req[r].tenant /\ \A d \in Conns \ {c} : setting'[d] = setting[d]
  BY DEF SetConfig, IInv, TypeOK
<1>4. req[r].tenant \in Tenants \union {Malformed, None}
  BY DEF IInv, TypeOK, RequestState
<1>5. TypeOK'
  <2>1. setting' \in [Conns -> Tenants \union {Malformed, Empty, None}]
    BY <1>4 DEF IInv, TypeOK, SetConfig
  <2>2. \A d \in Conns : by'[d] # None => req'[by'[d]].pc \in {"begun", "scoped"}
    BY <1>2 DEF IInv, TypeOK, SetConfig
  <2> QED
    BY <1>2, <2>1, <2>2 DEF IInv, TypeOK, SetConfig
<1>6. ~InTenantScope(c) /\ InTenantScope(c)'
  BY <1>2, ValuesAssumption DEF InTenantScope, SetConfig
<1>7. \A d \in Conns \ {c} : (InTenantScope(d)' <=> InTenantScope(d))
                             /\ (InTenantScope(d) => req'[by'[d]] = req[by[d]])
  BY <1>1, <1>2 DEF InTenantScope, IInv, TypeOK, SetConfig
<1>8. Scoped'
  BY <1>2, <1>3, <1>6, <1>7 DEF IInv, Scoped, SetConfig
<1>9. Guarded' /\ OnlyOwnRows'
  BY <1>2 DEF IInv, Guarded, OnlyOwnRows, Principal, SetConfig
<1>10. WriteAtHome' /\ Locking'
  BY <1>6, <1>7 DEF IInv, WriteAtHome, Locking, SetConfig
<1> QED
  BY <1>5, <1>8, <1>9, <1>10 DEF IInv

\* A read gives the request rows of the tenant it works for.
LEMMA ReadKeeps ==
  ASSUME IInv, NEW r \in Requests, NEW c \in Conns, Read(r, c)
  PROVE  IInv'
<1>1. \A i \in Visible(c) : Found(c, i) \in Tenants /\ Found(c, i) = req[r].tenant
  BY AdmittedInScope DEF Visible, Read, IInv
<1>2. req[r].tenant = Principal(r)
  BY DEF IInv, Guarded, Principal
<1>3. /\ \A w \in UNION seen'[r] : w \in Row /\ w.owner = Principal(r)
      /\ \A q \in Requests \ {r} : seen'[q] = seen[q]
  BY <1>1, <1>2 DEF Read, Visible, Row, IInv, TypeOK
<1>4. seen' \in [Requests -> SUBSET SUBSET Row]
  BY <1>3 DEF Read, IInv, TypeOK
<1>5. TypeOK'
  BY <1>4 DEF Read, IInv, TypeOK
<1>6. Scoped' /\ Guarded' /\ WriteAtHome' /\ Locking'
  BY DEF Read, IInv, Scoped, Guarded, WriteAtHome, Locking, InTenantScope
<1>7. OnlyOwnRows'
  BY <1>3 DEF Read, InScope, IInv, OnlyOwnRows, Principal
<1> QED
  BY <1>5, <1>6, <1>7 DEF IInv

\* A write waits in its transaction, on a row of its tenant that no other
\* transaction has written.
LEMMA PendKeeps ==
  ASSUME IInv, NEW r \in Requests, NEW c \in Conns, NEW i \in Rows,
         NEW t \in Tenants \union {None},
         InScope(r, c), Pend(c, i, t), req[r].tenant \in Tenants,
         owner[i] \in {None, req[r].tenant}, t \in {None, req[r].tenant}
  PROVE  IInv'
<1>1. /\ pending'[c][i] = t
      /\ \A j \in Rows \ {i} : pending'[c][j] = pending[c][j]
      /\ \A d \in Conns \ {c} : pending'[d] = pending[d]
      /\ pending' \in [Conns -> [Rows -> Tenants \union {None, Unwritten}]]
  BY DEF Pend, IInv, TypeOK
<1>2. InTenantScope(c) /\ by[c] = r
  BY ValuesAssumption DEF InScope, InTenantScope
<1>3. TypeOK'
  BY <1>1 DEF Pend, IInv, TypeOK
<1>4. Scoped' /\ Guarded' /\ OnlyOwnRows'
  BY DEF Pend, IInv, Scoped, Guarded, OnlyOwnRows, Principal, InTenantScope
<1>5. WriteAtHome'
  BY <1>1, <1>2 DEF Pend, IInv, WriteAtHome, InTenantScope
<1>6. Locking'
  BY <1>1 DEF Pend, Unlocked, IInv, Locking
<1> QED
  BY <1>3, <1>4, <1>5, <1>6 DEF IInv

\* The statements that write.
LEMMA WriteKeeps ==
  ASSUME IInv, NEW r \in Requests, NEW c \in Conns, NEW i \in Rows,
         Insert(r, c, i) \/ Update(r, c, i) \/ Delete(r, c, i)
  PROVE  IInv'
<1>1. owner[i] = Found(c, i) \/ owner[i] \in {None, req[r].tenant}
  BY DEF Insert, Update, Delete, InScope, Found, IInv, WriteAtHome
<1>2. CASE Insert(r, c, i)
  <2>1. req[r].tenant \in Tenants
    BY <1>2, AdmittedInScope DEF Insert, IInv
  <2> QED
    BY <1>1, <1>2, <2>1, PendKeeps DEF Insert
<1>3. CASE Update(r, c, i)
  <2>1. Found(c, i) \in Tenants /\ Found(c, i) = req[r].tenant
    BY <1>3, AdmittedInScope DEF Update, Visible, IInv
  <2> QED
    BY <1>1, <1>3, <2>1, PendKeeps DEF Update
<1>4. CASE Delete(r, c, i)
  <2>1. Found(c, i) \in Tenants /\ Found(c, i) = req[r].tenant
    BY <1>4, AdmittedInScope DEF Delete, Visible, IInv
  <2> QED
    BY <1>1, <2>1, <1>4, PendKeeps DEF Delete
<1> QED
  BY <1>2, <1>3, <1>4

\* A transaction that ends gives the connection back without its tenant; what it
\* commits are the rows it had written and locked.
LEMMA EndKeeps ==
  ASSUME IInv, NEW r \in Requests, NEW c \in Conns,
         by[c] = r, Release(c), UNCHANGED seen,
         req' \in [Requests -> RequestState],
         \A q \in Requests \ {r} : req'[q] = req[q],
         req'[r].pc \in {"idle", "ready"},
         \/ req'[r].pc = "idle" /\ req'[r].caller = None
         \/ req'[r].caller = req[r].caller /\ req'[r].tenant = req[r].tenant,
         owner' \in [Rows -> Tenants \union {None}],
         \A i \in Rows : owner'[i] # owner[i] => pending[c][i] # Unwritten
  PROVE  IInv'
<1>1. \A d \in Conns \ {c} : by[d] # r
  BY ValuesAssumption DEF IInv, TypeOK
<1>2. /\ by'[c] = None /\ \A i \in Rows : pending'[c][i] = Unwritten
      /\ setting'[c] \in {None, Empty}
      /\ \A d \in Conns \ {c} : by'[d] = by[d] /\ pending'[d] = pending[d] /\ setting'[d] = setting[d]
  BY DEF Release, NothingWritten, SettingReverted, IInv, TypeOK
<1>3. /\ setting' \in [Conns -> Tenants \union {Malformed, Empty, None}]
      /\ by' \in [Conns -> Requests \union {None}]
      /\ pending' \in [Conns -> [Rows -> Tenants \union {None, Unwritten}]]
  BY DEF Release, NothingWritten, SettingReverted, IInv, TypeOK
<1>4. \A d \in Conns \ {c} : by[d] # None => req'[by'[d]] = req[by[d]]
  BY <1>1, <1>2 DEF IInv, TypeOK
<1>5. TypeOK'
  <2>1. \A d \in Conns : by'[d] # None =>
          d # c /\ by'[d] = by[d] /\ req'[by'[d]].pc \in {"begun", "scoped"}
    BY <1>2, <1>4 DEF IInv, TypeOK
  <2>2. \A d, e \in Conns : by'[d] # None /\ by'[d] = by'[e] => d = e
    BY <1>2, <2>1 DEF IInv, TypeOK
  <2> QED
    BY <1>3, <2>1, <2>2 DEF IInv, TypeOK
<1>6. /\ ~InTenantScope(c)'
      /\ \A d \in Conns \ {c} : InTenantScope(d)' <=> InTenantScope(d)
  BY <1>2, <1>4 DEF InTenantScope
<1>7. Scoped'
  BY <1>2, <1>4, <1>6 DEF IInv, Scoped, InTenantScope
<1>8. Guarded' /\ OnlyOwnRows'
  BY ValuesAssumption DEF IInv, Guarded, OnlyOwnRows, Principal, TypeOK
<1>9. WriteAtHome'
  <2> SUFFICES ASSUME NEW d \in Conns, NEW i \in Rows, pending'[d][i] # Unwritten
               PROVE  /\ InTenantScope(d)'
                      /\ req'[by'[d]].tenant \in Tenants
                      /\ owner'[i] \in {None, req'[by'[d]].tenant}
                      /\ pending'[d][i] \in {None, req'[by'[d]].tenant}
    BY DEF WriteAtHome
  <2>1. d # c /\ pending'[d] = pending[d]
    BY <1>2
  <2>2. InTenantScope(d) /\ req'[by'[d]] = req[by[d]]
    BY <2>1, <1>4 DEF IInv, WriteAtHome, InTenantScope
  <2>3. owner'[i] = owner[i]
    BY <2>1 DEF IInv, Locking
  <2> QED
    BY <1>6, <2>1, <2>2, <2>3 DEF IInv, WriteAtHome
<1>10. Locking'
  BY <1>2 DEF IInv, Locking
<1> QED
  BY <1>5, <1>7, <1>8, <1>9, <1>10 DEF IInv

\* A commit makes a write on a row of the own tenant visible.
LEMMA CommitKeeps ==
  ASSUME IInv, NEW r \in Requests, NEW c \in Conns, Commit(r, c)
  PROVE  IInv'
<1>1. owner' \in [Rows -> Tenants \union {None}]
  BY FoundType DEF Commit, Committed, IInv
<1>2. \A i \in Rows : owner'[i] # owner[i] => pending[c][i] # Unwritten
  BY DEF Commit, Committed, Found
<1>3. /\ req' \in [Requests -> RequestState]
      /\ req'[r].pc = "ready" /\ req'[r].caller = req[r].caller /\ req'[r].tenant = req[r].tenant
      /\ \A q \in Requests \ {r} : req'[q] = req[q]
  BY GotoEffect DEF Commit, IInv
<1> QED
  BY <1>1, <1>2, <1>3, EndKeeps DEF Commit, InScope

\* A rollback takes setting and write with it.
LEMMA RollbackKeeps ==
  ASSUME IInv, NEW r \in Requests, NEW c \in Conns, Rollback(r, c)
  PROVE  IInv'
<1>1. Idle \in RequestState
  BY DEF Idle, RequestState
<1>2. /\ req' \in [Requests -> RequestState]
      /\ req'[r] = Idle
      /\ \A q \in Requests \ {r} : req'[q] = req[q]
  BY <1>1 DEF Rollback, IInv, TypeOK
<1>3. req'[r].pc = "idle" /\ req'[r].caller = None
  BY <1>2 DEF Idle
<1>4. owner' \in [Rows -> Tenants \union {None}] /\ owner' = owner
  BY DEF Rollback, IInv, TypeOK
<1> QED
  BY <1>2, <1>3, <1>4, EndKeeps DEF Rollback

\* A new connection has no setting.
LEMMA ReconnectKeeps ==
  ASSUME IInv, NEW c \in Conns, Reconnect(c)
  PROVE  IInv'
<1>1. setting'[c] = None /\ \A d \in Conns \ {c} : setting'[d] = setting[d]
  BY DEF Reconnect, IInv, TypeOK
<1>2. TypeOK'
  BY DEF Reconnect, IInv, TypeOK
<1>3. Scoped'
  BY <1>1 DEF Reconnect, IInv, Scoped, InTenantScope
<1>4. Guarded' /\ OnlyOwnRows' /\ WriteAtHome' /\ Locking'
  BY DEF Reconnect, IInv, Guarded, OnlyOwnRows, Principal, WriteAtHome, Locking, InTenantScope
<1> QED
  BY <1>2, <1>3, <1>4 DEF IInv

-----------------------------------------------------------------------------
(* The invariant holds *)

\* The invariant holds at first.
LEMMA InitHolds == Init => IInv
<1> SUFFICES ASSUME Init PROVE IInv
  OBVIOUS
<1>1. Idle \in RequestState /\ Idle.pc = "idle" /\ Idle.caller = None
  BY DEF Idle, RequestState
<1>2. TypeOK
  BY <1>1 DEF Init, TypeOK, NothingWritten
<1>3. Scoped /\ WriteAtHome /\ Locking
  BY DEF Init, Scoped, WriteAtHome, Locking, InTenantScope, NothingWritten
<1>4. Guarded /\ OnlyOwnRows
  BY <1>1 DEF Init, Guarded, OnlyOwnRows
<1> QED
  BY <1>2, <1>3, <1>4 DEF IInv

\* Every action keeps the invariant.
LEMMA StepKeeps == IInv /\ [Next]_vars => IInv'
<1> SUFFICES ASSUME IInv, [Next]_vars PROVE IInv'
  OBVIOUS
<1>1. ASSUME NEW r \in Requests, NEW header \in Tenants \union {Malformed, None}, Public(r, header)
      PROVE  IInv'
  BY <1>1, StartKeeps DEF Public
<1>2. ASSUME NEW r \in Requests, NEW header \in Tenants \union {Malformed, None},
             NEW token \in Tenants, Authenticated(r, token, header)
      PROVE  IInv'
  BY <1>2, StartKeeps DEF Authenticated, TenantGuardPasses
<1>3. ASSUME NEW r \in Requests, NEW c \in Conns, Transaction(r, c)
      PROVE  IInv'
  BY <1>3, BeginKeeps, SetConfigKeeps, ReadKeeps, WriteKeeps, CommitKeeps, RollbackKeeps
     DEF Transaction
<1>4. ASSUME UNCHANGED vars
      PROVE  IInv'
  BY <1>4 DEF vars, IInv, TypeOK, Scoped, Guarded, OnlyOwnRows, Principal, WriteAtHome, Locking,
     InTenantScope
<1> QED
  BY <1>1, <1>2, <1>3, <1>4, AnswerKeeps, ReconnectKeeps DEF Next

\* The inductive invariant holds.
LEMMA Invariance == Spec => []IInv
<1> QED
  BY InitHolds, StepKeeps, PTL DEF Spec

-----------------------------------------------------------------------------
(* The theorems *)

\* Connections, transactions and requests are always in the states the code gives them.
THEOREM TypeCorrect == Spec => []TypeOK
<1>1. IInv => TypeOK
  BY DEF IInv
<1> QED
  BY <1>1, Invariance, PTL

\* However the pool was used before, a query without a tenant finds no row and
\* raises no error.
THEOREM NothingWithoutTenant == Spec => []FailClosed
<1>1. IInv => FailClosed
  <2> SUFFICES ASSUME IInv, NEW c \in Conns, by[c] = None \/ req[by[c]].pc = "begun"
               PROVE  Visible(c) = {} /\ ~Raises(c)
    BY DEF FailClosed
  <2>1. setting[c] \in {None, Empty}
    BY DEF IInv, Scoped, InTenantScope
  <2>2. PolicyTenant(setting[c]) = None
    BY <2>1 DEF PolicyTenant
  <2> QED
    BY <2>2, ValuesAssumption DEF Visible, Raises, PolicyAdmits
<1> QED
  BY <1>1, Invariance, PTL

\* A request is given rows of its own tenant and of no other.
THEOREM ReadsIsolated == Spec => []OnlyOwnRows
<1>1. IInv => OnlyOwnRows
  BY DEF IInv
<1> QED
  BY <1>1, Invariance, PTL

\* Only a request of a tenant makes a row of that tenant appear or disappear, and
\* no row moves from one tenant to another.
THEOREM WritesIsolated == Spec => WritesStayHome
<1> DEFINE Home ==
      \A i \in Rows :
        owner'[i] # owner[i] =>
          \E r \in Requests : {owner[i], owner'[i]} = {None, Principal(r)}
                              /\ req[r].pc = "scoped" /\ req'[r].pc = "ready"
<1>1. ASSUME IInv, NEW r \in Requests, NEW c \in Conns, Commit(r, c), NEW i \in Rows,
             owner'[i] # owner[i]
      PROVE  /\ {owner[i], owner'[i]} = {None, Principal(r)}
             /\ req[r].pc = "scoped" /\ req'[r].pc = "ready"
  <2>1. pending[c][i] # Unwritten /\ owner'[i] = pending[c][i]
    BY <1>1 DEF Commit, Committed, Found
  <2>2. owner[i] \in {None, req[r].tenant} /\ owner'[i] \in {None, req[r].tenant}
    BY <1>1, <2>1 DEF Commit, InScope, IInv, WriteAtHome
  <2>3. req[r].tenant = Principal(r)
    BY <1>1 DEF IInv, Guarded, Principal
  <2>4. {owner[i], owner'[i]} = {None, Principal(r)}
    BY <1>1, <2>2, <2>3
  <2> QED
    BY <1>1, <2>4, GotoEffect DEF Commit, InScope, IInv
<1>2. ASSUME IInv, [Next]_vars, ~\E r \in Requests, c \in Conns : Commit(r, c)
      PROVE  owner' = owner
  BY <1>2 DEF Next, vars, Public, Authenticated, Start, Transaction, Begin, SetConfig, Read, Insert,
     Update, Delete, Pend, Rollback, Answer, Reconnect
<1>3. IInv /\ [Next]_vars => [Home]_vars
  BY <1>1, <1>2
<1> QED
  BY <1>3, Invariance, PTL DEF Spec, WritesStayHome

-----------------------------------------------------------------------------
(* A store for every hotel *)

\* None is no request and no hotel, and what is unwritten is neither.
LEMMA NoneIsNothing ==
  /\ None \notin Requests /\ None \notin Tenants
  /\ Unwritten \notin Tenants /\ Unwritten # None
BY ValuesAssumption

\* When one request moves, what the mapping says of the others stays.
LEMMA OneRequestMoves ==
  ASSUME NEW r \in Requests,
         \A q \in Requests \ {r} : req'[q] = req[q] /\ seen'[q] = seen[q],
         \A q \in Requests \ {r}, i \in Rows, t \in Tenants \union {None} :
           Pends(q, i, t)' <=> Pends(q, i, t)
  PROVE  /\ Served' = [Served EXCEPT ![r] = Served'[r]]
         /\ Written' = [Written EXCEPT ![r] = Written'[r]]
         /\ Erased' = [Erased EXCEPT ![r] = Erased'[r]]
         /\ Given' = [Given EXCEPT ![r] = Given'[r]]
<1>1. \A q \in Requests \ {r} : (Serving(q)' <=> Serving(q)) /\ Principal(q)' = Principal(q)
  BY DEF Serving, Principal
<1>2. Served' = [Served EXCEPT ![r] = Served'[r]]
  BY <1>1 DEF Served
<1>3. \A q \in Requests \ {r} : Written'[q] = Written[q] /\ Erased'[q] = Erased[q]
  BY DEF Written, Erased
<1>4. Written' = [Written EXCEPT ![r] = Written'[r]]
  <2>1. Written = [q \in Requests |-> Written[q]] /\ Written' = [q \in Requests |-> Written'[q]]
    BY DEF Written
  <2> QED BY <1>3, <2>1
<1>7. Erased' = [Erased EXCEPT ![r] = Erased'[r]]
  <2>1. Erased = [q \in Requests |-> Erased[q]] /\ Erased' = [q \in Requests |-> Erased'[q]]
    BY DEF Erased
  <2> QED BY <1>3, <2>1
<1>5. \A q \in Requests \ {r} : Given'[q] = Given[q]
  BY <1>1 DEF Given
<1>6. Given' = [Given EXCEPT ![r] = Given'[r]]
  BY <1>5 DEF Given
<1> QED BY <1>2, <1>4, <1>6, <1>7

\* What happens on a connection is none of the other requests' changes.
LEMMA OthersPend ==
  ASSUME NEW r \in Requests, NEW c \in Conns,
         by[c] \in {r, None}, by'[c] \in {r, None},
         \A d \in Conns \ {c} : by'[d] = by[d] /\ pending'[d] = pending[d]
  PROVE  \A q \in Requests \ {r}, i \in Rows, t \in Tenants \union {None} :
           Pends(q, i, t)' <=> Pends(q, i, t)
BY NoneIsNothing DEF Pends

\* A request's changes are those of its one transaction, if it has one.
LEMMA ChangesOfTransaction ==
  ASSUME TypeOK, NEW r \in Requests
  PROVE  /\ \A c \in Conns : by[c] = r =>
              \A i \in Rows, t \in Tenants \union {None} :
                Pends(r, i, t) <=> pending[c][i] = t
         /\ (\A c \in Conns : by[c] # r) => Written[r] = {} /\ Erased[r] = {}
<1>1. \A c, d \in Conns : by[c] = r /\ by[d] = r => c = d
  BY NoneIsNothing DEF TypeOK
<1> QED BY <1>1 DEF Pends, Written, Erased

\* A transaction that has written nothing has no changes.
LEMMA NothingPending ==
  ASSUME TypeOK, NEW r \in Requests, NEW c \in Conns, by[c] = r,
         \A i \in Rows : pending[c][i] = Unwritten
  PROVE  Written[r] = {} /\ Erased[r] = {}
<1>1. \A i \in Rows, t \in Tenants \union {None} : ~Pends(r, i, t)
  BY ChangesOfTransaction, NoneIsNothing
<1> QED BY <1>1 DEF Written, Erased

\* In a scope, the request works for the context's tenant; without one it has
\* no rows and no changes.
LEMMA InScopeFor ==
  ASSUME IInv, NEW r \in Requests, NEW c \in Conns, InScope(r, c)
  PROVE  /\ Principal(r) = req[r].tenant
         /\ Serving(r) <=> req[r].tenant \in Tenants
         /\ Served[r] = IF req[r].tenant \in Tenants THEN req[r].tenant ELSE None
         /\ req[r].tenant \notin Tenants => Visible(c) = {} /\ \A i \in Rows : pending[c][i] = Unwritten
<1>1. Principal(r) = req[r].tenant
  BY DEF IInv, Guarded, Principal
<1>2. Serving(r) <=> req[r].tenant \in Tenants
  BY <1>1 DEF Serving, InScope
<1>3. Served[r] = IF req[r].tenant \in Tenants THEN req[r].tenant ELSE None
  BY <1>1, <1>2 DEF Served
<1>4. req[r].tenant \notin Tenants => Visible(c) = {}
  BY AdmittedInScope DEF Visible, IInv
<1>5. req[r].tenant \notin Tenants => \A i \in Rows : pending[c][i] = Unwritten
  BY DEF IInv, WriteAtHome, InScope
<1> QED BY <1>1, <1>2, <1>3, <1>4, <1>5

\* The policy shows a transaction exactly its hotel's store, with its own changes.
LEMMA ViewIsVisible ==
  ASSUME IInv, NEW r \in Requests, NEW c \in Conns, InScope(r, c), req[r].tenant \in Tenants
  PROVE  /\ Stores!View(r) = {i \in Rows : Found(c, i) = req[r].tenant}
         /\ Stores!View(r) = Visible(c)
<1> DEFINE t == req[r].tenant
<1>1. Served[r] = t /\ t # None
  BY InScopeFor, NoneIsNothing
<1>2. setting[c] = t
  BY NoneIsNothing DEF InScope, IInv, Scoped, InTenantScope
<1>3. \A i \in Rows : PolicyAdmits(c, Found(c, i)) <=> Found(c, i) = t
  BY <1>1, <1>2, ValuesAssumption DEF PolicyAdmits, PolicyTenant
<1>4. /\ Written[r] \subseteq Rows
      /\ \A i \in Rows : i \in Written[r] <=> \E u \in Tenants : pending[c][i] = u
      /\ \A i \in Rows : i \in Erased[r] <=> pending[c][i] = None
  <2>1. by[c] = r /\ TypeOK
    BY DEF InScope, IInv
  <2>2. \A i \in Rows, u \in Tenants \union {None} :
          Pends(r, i, u) <=> pending[c][i] = u
    BY <2>1, ChangesOfTransaction
  <2> QED BY <2>2 DEF Written, Erased
<1>5. HotelRows[t] = {i \in Rows : owner[i] = t}
  BY DEF HotelRows
<1>6. ASSUME NEW i \in Rows
      PROVE  i \in (HotelRows[t] \ Erased[r]) \union Written[r] <=> Found(c, i) = t
  <2>1. CASE pending[c][i] # Unwritten
    <3>1. pending[c][i] \in {None, t}
      BY <2>1 DEF IInv, WriteAtHome, InScope
    <3>2. i \in Written[r] <=> pending[c][i] = t
      BY <1>1, <1>4, <3>1, NoneIsNothing
    <3>3. i \in Erased[r] <=> pending[c][i] = None
      BY <1>4
    <3> QED BY <1>1, <2>1, <3>1, <3>2, <3>3 DEF Found
  <2>2. CASE pending[c][i] = Unwritten
    <3>1. i \notin Written[r] /\ i \notin Erased[r]
      BY <1>4, <2>2, NoneIsNothing
    <3> QED BY <1>5, <2>2, <3>1 DEF Found
  <2> QED BY <2>1, <2>2
<1>7. Written[r] \subseteq Rows /\ HotelRows[t] \subseteq Rows
  BY <1>4, <1>5
<1>8. Stores!View(r) = (HotelRows[t] \ Erased[r]) \union Written[r]
  BY <1>1 DEF Stores!View
<1> QED BY <1>3, <1>6, <1>7, <1>8 DEF Visible

\* A request that starts with a hotel's context arrives at that hotel's store.
LEMMA StartArrives ==
  ASSUME IInv, NEW r \in Requests,
         NEW caller \in Tenants \union {None},
         NEW tenant \in Tenants \union {Malformed, None},
         Start(r, caller, tenant)
  PROVE  [Stores!Next]_(Stores!vars)
<1>1. /\ req'[r] = [pc |-> "ready", caller |-> caller, tenant |-> tenant]
      /\ seen'[r] = {}
      /\ \A q \in Requests \ {r} : req'[q] = req[q] /\ seen'[q] = seen[q]
  BY DEF Start, IInv, TypeOK
<1>0. \A q \in Requests, i \in Rows, t \in Tenants \union {None} : Pends(q, i, t)' <=> Pends(q, i, t)
  BY DEF Start, Pends
<1>2. /\ Served' = [Served EXCEPT ![r] = Served'[r]]
      /\ Given' = [Given EXCEPT ![r] = Given'[r]]
      /\ HotelRows' = HotelRows /\ Written' = Written /\ Erased' = Erased
  <2>1. Served' = [Served EXCEPT ![r] = Served'[r]] /\ Given' = [Given EXCEPT ![r] = Given'[r]]
    BY <1>0, <1>1, OneRequestMoves
  <2>2. HotelRows' = HotelRows /\ Written' = Written /\ Erased' = Erased
    BY <1>0 DEF Start, HotelRows, Written, Erased
  <2> QED BY <2>1, <2>2
<1>3. Served[r] = None /\ Given[r] = {} /\ Given'[r] = {}
  BY <1>1 DEF Start, Served, Given, Serving
<1>4. Given' = Given
  BY <1>2, <1>3 DEF Given
<1>5. CASE Serving(r)'
  <2>1. Served'[r] \in Tenants
    BY <1>5 DEF Served, Serving
  <2> DEFINE h == Served'[r]
  <2>2. Stores!Arrive(r, h)
    BY <1>2, <1>3, <1>4 DEF Stores!Arrive
  <2> HIDE DEF h
  <2> QED BY <2>1, <2>2 DEF Stores!Next, h
<1>6. CASE ~Serving(r)'
  <2>1. Served'[r] = None
    BY <1>6 DEF Served
  <2>2. Served' = Served
    BY <1>2, <1>3, <2>1 DEF Served
  <2> QED BY <1>2, <1>4, <2>2 DEF Stores!vars
<1> QED BY <1>5, <1>6

\* Beginning a transaction and making the setting change no store.
LEMMA ScopingStutters ==
  ASSUME IInv, NEW r \in Requests, NEW c \in Conns, Begin(r, c) \/ SetConfig(r, c)
  PROVE  UNCHANGED Stores!vars
<1>1. /\ req'[r].pc # "idle" /\ req[r].pc # "idle"
      /\ req'[r].caller = req[r].caller /\ req'[r].tenant = req[r].tenant
      /\ \A q \in Requests \ {r} : req'[q] = req[q]
      /\ UNCHANGED <<owner, pending, seen>>
  BY GotoEffect DEF Begin, SetConfig, IInv
<1>2. \A q \in Requests : (Serving(q)' <=> Serving(q)) /\ Principal(q)' = Principal(q)
  BY <1>1 DEF Serving, Principal
<1>3. HotelRows' = HotelRows /\ Served' = Served /\ Given' = Given
  BY <1>1, <1>2 DEF HotelRows, Served, Given
<1>4. \A d \in Conns, i \in Rows : pending[d][i] # Unwritten => by'[d] = by[d]
  BY DEF Begin, SetConfig, IInv, TypeOK, WriteAtHome, InTenantScope
<1>5. \A q \in Requests, i \in Rows, t \in Tenants \union {None} : Pends(q, i, t)' <=> Pends(q, i, t)
  BY <1>1, <1>4, NoneIsNothing DEF Pends
<1>6. Written' = Written /\ Erased' = Erased
  BY <1>5 DEF Written, Erased
<1> QED BY <1>3, <1>6 DEF Stores!vars

\* A query is answered from the hotel's store.
LEMMA ReadReads ==
  ASSUME IInv, NEW r \in Requests, NEW c \in Conns, Read(r, c)
  PROVE  [Stores!Next]_(Stores!vars)
<1>1. /\ seen'[r] = {{[row |-> i, owner |-> Found(c, i)] : i \in Visible(c)}}
      /\ \A q \in Requests \ {r} : seen'[q] = seen[q]
      /\ UNCHANGED <<owner, by, pending, req>>
  BY DEF Read, IInv, TypeOK
<1>2. /\ HotelRows' = HotelRows /\ Served' = Served /\ Written' = Written /\ Erased' = Erased
  BY <1>1 DEF HotelRows, Served, Serving, Principal, Written, Erased, Pends
<1>3. Given' = [Given EXCEPT ![r] = Given'[r]]
  BY <1>1, OneRequestMoves DEF Pends
<1>4. CASE req[r].tenant \in Tenants
  <2>1. Serving(r) /\ Serving(r)' /\ Served[r] # None
    BY <1>1, <1>4, InScopeFor, NoneIsNothing DEF Read, Serving, Principal
  <2>2. Given'[r] = {Visible(c)}
    <3> DEFINE answer == {[row |-> i, owner |-> Found(c, i)] : i \in Visible(c)}
    <3>1. {w.row : w \in answer} = Visible(c)
      <4>1. \A w \in answer : w.row \in Visible(c)
        OBVIOUS
      <4>2. \A i \in Visible(c) : [row |-> i, owner |-> Found(c, i)] \in answer
        OBVIOUS
      <4>3. \A i \in Visible(c) : \E w \in answer : w.row = i
        BY <4>2
      <4> HIDE DEF answer
      <4> QED BY <4>1, <4>3
    <3>2. Given'[r] = {{w.row : w \in a} : a \in seen'[r]}
      BY <2>1 DEF Given
    <3>3. seen'[r] = {answer}
      BY <1>1
    <3> HIDE DEF answer
    <3> QED BY <3>1, <3>2, <3>3
  <2>3. Stores!Read(r)
    BY <1>2, <1>3, <1>4, <2>1, <2>2, ViewIsVisible DEF Stores!Read, Read
  <2> QED BY <2>3 DEF Stores!Next
<1>5. CASE req[r].tenant \notin Tenants
  <2>1. ~Serving(r) /\ ~Serving(r)'
    BY <1>1, <1>5, InScopeFor DEF Read, Serving, Principal
  <2>2. Given' = Given
    BY <1>3, <2>1 DEF Given
  <2> QED BY <1>2, <2>2 DEF Stores!vars
<1> QED BY <1>4, <1>5

\* A write of the transaction is a change of the hotel's store, on a row that no
\* other request of the hotel has changed.
LEMMA PendChanges ==
  ASSUME IInv, NEW r \in Requests, NEW c \in Conns, NEW i \in Rows,
         NEW t \in Tenants \union {None},
         InScope(r, c), Pend(c, i, t), req[r].tenant \in Tenants,
         t = None => i \in Visible(c)
  PROVE  Stores!Next
<1>1. /\ by[c] = r /\ pending'[c][i] = t
      /\ \A j \in Rows \ {i} : pending'[c][j] = pending[c][j]
      /\ \A d \in Conns \ {c} : pending'[d] = pending[d]
      /\ UNCHANGED <<owner, by, req, seen>>
  BY DEF Pend, InScope, IInv, TypeOK
<1>2. /\ HotelRows' = HotelRows /\ Served' = Served /\ Given' = Given
      /\ Written' = [Written EXCEPT ![r] = Written'[r]]
      /\ Erased' = [Erased EXCEPT ![r] = Erased'[r]]
  <2>1. \A q \in Requests \ {r}, j \in Rows, u \in Tenants \union {None} :
          Pends(q, j, u)' <=> Pends(q, j, u)
    BY <1>1, OthersPend
  <2>2. /\ Written' = [Written EXCEPT ![r] = Written'[r]]
        /\ Erased' = [Erased EXCEPT ![r] = Erased'[r]]
    BY <1>1, <2>1, OneRequestMoves
  <2> QED BY <1>1, <2>2 DEF HotelRows, Served, Given, Serving, Principal
<1>3. \A j \in Rows, u \in Tenants \union {None} : Pends(r, j, u) <=> pending[c][j] = u
  BY <1>1, ChangesOfTransaction DEF IInv
<1>4. \A j \in Rows, u \in Tenants \union {None} :
        Pends(r, j, u)' <=> IF j = i THEN u = t ELSE Pends(r, j, u)
  <2>1. \A d \in Conns : by'[d] = r <=> d = c
    BY <1>1, NoneIsNothing DEF IInv, TypeOK
  <2>2. \A j \in Rows, u \in Tenants \union {None} : Pends(r, j, u)' <=> pending'[c][j] = u
    BY <2>1 DEF Pends
  <2> QED BY <1>1, <1>3, <2>2
<1>5. Served[r] # None
  BY InScopeFor, NoneIsNothing
<1>6. Stores!Unlocked(r, i)
  <2>1. \A q \in Requests \ {r}, u \in Tenants \union {None} : ~Pends(q, i, u)
    BY <1>1, NoneIsNothing DEF Pend, Unlocked, Pends
  <2> QED BY <2>1 DEF Stores!Unlocked, Written, Erased
<1>7. CASE t = None
  <2>1. Written'[r] = Written[r] \ {i} /\ Erased'[r] = Erased[r] \union {i}
    BY <1>4, <1>7, NoneIsNothing DEF Written, Erased
  <2>2. i \in Stores!View(r)
    BY <1>7, ViewIsVisible
  <2>3. Stores!Remove(r, i)
    BY <1>2, <1>5, <1>6, <2>1, <2>2 DEF Stores!Remove
  <2> QED BY <2>3 DEF Stores!Next
<1>8. CASE t \in Tenants
  <2>1. Written'[r] = Written[r] \union {i} /\ Erased'[r] = Erased[r] \ {i}
    BY <1>4, <1>8, NoneIsNothing DEF Written, Erased
  <2>2. Stores!Put(r, i)
    BY <1>2, <1>5, <1>6, <2>1 DEF Stores!Put
  <2> QED BY <2>2 DEF Stores!Next
<1> QED BY <1>7, <1>8

\* create, updateMany and deleteMany change the hotel's store only.
LEMMA WriteChanges ==
  ASSUME IInv, NEW r \in Requests, NEW c \in Conns, NEW i \in Rows,
         Insert(r, c, i) \/ Update(r, c, i) \/ Delete(r, c, i)
  PROVE  Stores!Next
<1>1. CASE Insert(r, c, i)
  <2>1. req[r].tenant \in Tenants
    BY <1>1, AdmittedInScope DEF Insert, IInv
  <2> QED BY <1>1, <2>1, PendChanges, NoneIsNothing DEF Insert
<1>2. CASE Update(r, c, i)
  <2>1. Found(c, i) \in Tenants /\ Found(c, i) = req[r].tenant
    BY <1>2, AdmittedInScope DEF Update, Visible, IInv
  <2> QED BY <1>2, <2>1, PendChanges, NoneIsNothing DEF Update
<1>3. CASE Delete(r, c, i)
  <2>1. req[r].tenant \in Tenants
    BY <1>3, AdmittedInScope DEF Delete, Visible, IInv
  <2> QED BY <1>3, <2>1, PendChanges DEF Delete
<1> QED BY <1>1, <1>2, <1>3

\* A connection that is given back takes its transaction's changes with it.
LEMMA ReleaseDrops ==
  ASSUME IInv, NEW r \in Requests, NEW c \in Conns, by[c] = r, Release(c)
  PROVE  /\ \A q \in Requests \ {r}, i \in Rows, t \in Tenants \union {None} :
              Pends(q, i, t)' <=> Pends(q, i, t)
         /\ Written'[r] = {} /\ Erased'[r] = {}
<1>1. /\ by'[c] = None /\ \A d \in Conns \ {c} : by'[d] = by[d] /\ pending'[d] = pending[d]
      /\ \A d \in Conns \ {c} : by[d] # r
  BY NoneIsNothing DEF Release, IInv, TypeOK
<1>2. \A i \in Rows, t \in Tenants \union {None} : ~Pends(r, i, t)'
  BY <1>1, NoneIsNothing DEF Pends
<1> QED BY <1>1, <1>2, OthersPend DEF Written, Erased

\* A commit puts all of the transaction's changes into the hotel's store, and
\* touches no other.
LEMMA CommitCommits ==
  ASSUME IInv, NEW r \in Requests, NEW c \in Conns, Commit(r, c)
  PROVE  [Stores!Next]_(Stores!vars)
<1>1. /\ req'[r].pc = "ready" /\ req'[r].caller = req[r].caller /\ req'[r].tenant = req[r].tenant
      /\ \A q \in Requests \ {r} : req'[q] = req[q]
      /\ req[r].pc = "scoped" /\ by[c] = r
      /\ owner' = [i \in Rows |-> Found(c, i)]
      /\ UNCHANGED seen
  BY GotoEffect DEF Commit, Committed, InScope, IInv
<1>2. \A q \in Requests : (Serving(q)' <=> Serving(q)) /\ Principal(q)' = Principal(q)
  BY <1>1 DEF Serving, Principal
<1>3. Served' = Served /\ Given' = Given
  BY <1>1, <1>2 DEF Served, Given
<1>4. Written' = [Written EXCEPT ![r] = {}] /\ Erased' = [Erased EXCEPT ![r] = {}]
  BY <1>1, ReleaseDrops, OneRequestMoves DEF Commit
<1>5. CASE req[r].tenant \in Tenants
  <2> DEFINE t == req[r].tenant
  <2>1. Served[r] = t /\ t # None
    BY <1>5, InScopeFor, NoneIsNothing DEF Commit
  <2>2. \A i \in Rows : owner'[i] = owner[i] \/ {owner[i], owner'[i]} \subseteq {None, t}
    BY <1>1 DEF Found, IInv, WriteAtHome
  <2>3. HotelRows'[t] = Stores!View(r)
    BY <1>1, <1>5, ViewIsVisible DEF HotelRows, Commit
  <2>4. \A h \in Tenants \ {t} : HotelRows'[h] = HotelRows[h]
    BY <2>2, NoneIsNothing DEF HotelRows
  <2>5. HotelRows' = [HotelRows EXCEPT ![t] = Stores!View(r)]
    BY <2>3, <2>4 DEF HotelRows
  <2>6. Stores!Commit(r)
    BY <1>3, <1>4, <2>1, <2>5 DEF Stores!Commit, Stores!Drop
  <2> QED BY <2>6 DEF Stores!Next
<1>6. CASE req[r].tenant \notin Tenants
  <2>1. \A i \in Rows : pending[c][i] = Unwritten
    BY <1>6, InScopeFor DEF Commit
  <2>2. \A i \in Rows : owner'[i] = owner[i]
    BY <1>1, <2>1 DEF Found
  <2>3. HotelRows' = HotelRows
    BY <2>2 DEF HotelRows
  <2>4. Written[r] = {} /\ Erased[r] = {}
    BY <1>1, <2>1, NothingPending DEF IInv
  <2>5. Written' = Written /\ Erased' = Erased
    BY <1>4, <2>4 DEF Written, Erased
  <2> QED BY <1>3, <2>3, <2>5 DEF Stores!vars
<1> QED BY <1>5, <1>6

\* A request that is over leaves the store as it was committed.
LEMMA EndLeaves ==
  ASSUME IInv, NEW r \in Requests,
         (\E c \in Conns : Rollback(r, c)) \/ Answer(r)
  PROVE  [Stores!Next]_(Stores!vars)
<1>1. /\ req'[r] = Idle
      /\ \A q \in Requests \ {r} : req'[q] = req[q]
      /\ UNCHANGED <<owner, seen>>
  BY DEF Rollback, Answer, IInv, TypeOK
<1> DEFINE Dropped == /\ \A q \in Requests \ {r}, i \in Rows, t \in Tenants \union {None} :
                           Pends(q, i, t)' <=> Pends(q, i, t)
                      /\ Written'[r] = {} /\ Erased'[r] = {}
<1>2. Dropped
  <2>1. ASSUME NEW c \in Conns, Rollback(r, c)
        PROVE  Dropped
    BY <2>1, ReleaseDrops DEF Rollback
  <2>2. ASSUME Answer(r)
        PROVE  Dropped
    <3>1. \A c \in Conns : by[c] # r
      BY <2>2, NoneIsNothing DEF Answer, IInv, TypeOK
    <3>2. UNCHANGED <<by, pending>>
      BY <2>2 DEF Answer
    <3> QED BY <3>1, <3>2 DEF Pends, Written, Erased
  <2> QED BY <2>1, <2>2
<1>3. Served'[r] = None /\ Given'[r] = {}
  BY <1>1 DEF Served, Given, Serving, Idle
<1>4. /\ Served' = [Served EXCEPT ![r] = None]
      /\ Written' = [Written EXCEPT ![r] = {}]
      /\ Erased' = [Erased EXCEPT ![r] = {}]
      /\ Given' = [Given EXCEPT ![r] = {}]
      /\ HotelRows' = HotelRows
  BY <1>1, <1>2, <1>3, OneRequestMoves DEF HotelRows
<1>5. CASE Served[r] # None
  <2>1. Stores!Leave(r)
    BY <1>4, <1>5 DEF Stores!Leave, Stores!Drop
  <2> QED BY <2>1 DEF Stores!Next
<1>6. CASE Served[r] = None
  <2>1. ~Serving(r)
    BY <1>6, NoneIsNothing DEF Served, Serving
  <2>2. Given[r] = {}
    BY <2>1 DEF Given
  <2>3. Written[r] = {} /\ Erased[r] = {}
    <3>1. \A c \in Conns, i \in Rows : by[c] = r => pending[c][i] = Unwritten
      <4> SUFFICES ASSUME NEW c \in Conns, NEW i \in Rows, by[c] = r, pending[c][i] # Unwritten
                   PROVE FALSE
        OBVIOUS
      <4>1. req[r].pc = "scoped" /\ req[r].tenant \in Tenants
        BY DEF IInv, WriteAtHome, InTenantScope
      <4> QED BY <2>1, <4>1 DEF Serving, Principal, IInv, Guarded
    <3> QED BY <3>1, NoneIsNothing DEF Written, Erased, Pends
  <2>4. Served' = Served /\ Given' = Given /\ Written' = Written /\ Erased' = Erased
    BY <1>4, <1>6, <2>2, <2>3 DEF Served, Given, Written, Erased
  <2> QED BY <1>4, <2>4 DEF Stores!vars
<1> QED BY <1>5, <1>6

\* Every step is a step of one hotel's store, or changes none.
LEMMA StoresStep == IInv /\ [Next]_vars => [Stores!Next]_(Stores!vars)
<1> SUFFICES ASSUME IInv, [Next]_vars PROVE [Stores!Next]_(Stores!vars)
  OBVIOUS
<1>1. ASSUME NEW r \in Requests, NEW header \in Tenants \union {Malformed, None},
             Public(r, header) \/ \E token \in Tenants : Authenticated(r, token, header)
      PROVE  [Stores!Next]_(Stores!vars)
  BY <1>1, StartArrives DEF Public, Authenticated
<1>2. ASSUME NEW r \in Requests, NEW c \in Conns, Transaction(r, c)
      PROVE  [Stores!Next]_(Stores!vars)
  BY <1>2, ScopingStutters, ReadReads, WriteChanges, CommitCommits, EndLeaves DEF Transaction
<1>3. ASSUME (\E c \in Conns : Reconnect(c)) \/ UNCHANGED vars
      PROVE  UNCHANGED Stores!vars
  BY <1>3 DEF Reconnect, vars, Stores!vars, HotelRows, Served, Serving, Principal, Written, Erased,
    Pends, Given
<1> QED BY <1>1, <1>2, <1>3, EndLeaves DEF Next

\* One table behind policies, reached through one pool, is a store of its own
\* for every hotel.
THEOREM StorePerHotel == Spec => ImplementsStores
<1>1. Init => Stores!Init
  <2> SUFFICES ASSUME Init PROVE Stores!Init
    OBVIOUS
  <2>1. HotelRows \in [Tenants -> SUBSET Rows]
    BY DEF HotelRows
  <2>2. \A r \in Requests : ~Serving(r)
    BY DEF Init, Idle, Serving
  <2>3. Served = [r \in Requests |-> None] /\ Given = [r \in Requests |-> {}]
    BY <2>2 DEF Served, Given
  <2>4. Written = [r \in Requests |-> {}] /\ Erased = [r \in Requests |-> {}]
    BY NoneIsNothing DEF Init, NothingWritten, Written, Erased, Pends
  <2> QED BY <2>1, <2>3, <2>4 DEF Stores!Init
<1> QED
  BY <1>1, Invariance, StoresStep, PTL DEF Spec, ImplementsStores, Stores!Spec

=============================================================================
