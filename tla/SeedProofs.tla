------------------------------ MODULE SeedProofs ------------------------------
(***************************************************************************)
(* Proofs about Seed for any list of hotels, any number of runs that       *)
(* overlap and any number of writes of the application.                    *)
(***************************************************************************)
EXTENDS Seed, TLAPS

-----------------------------------------------------------------------------
(* The script *)

\* The demo users are rows of the script, and they refer to nothing.
LEMMA DemoUsersListed ==
  /\ DemoUsers \subseteq Items
  /\ \A u \in DemoUsers : Refs(u) = {}
<1>1. Script[2] = "admin" /\ Script[3] = "manager" /\ Script[4] = "staff"
  BY DEF Script
<1>2. {2, 3, 4} \subseteq DOMAIN Script
  BY DEF Script
<1>3. DemoUsers \subseteq Items
  BY <1>1, <1>2 DEF Items, DemoUsers
<1> QED BY <1>3 DEF DemoUsers, Refs

\* The statements are numbered from 1, and each one upserts an item.
LEMMA ScriptNumbers ==
  /\ Len(Script) = 11
  /\ \A k \in 1 .. Len(Script) : Script[k] \in Items
<1>1. Len(Script) = 11 /\ DOMAIN Script = 1 .. 11
  BY DEF Script
<1> QED BY <1>1 DEF Items

\* The script is in an order that satisfies its references: a row refers only
\* to rows of statements before its own.
LEMMA ScriptOrdered ==
  ASSUME NEW k \in 1 .. Len(Script), NEW r \in Refs(Script[k])
  PROVE  \E j \in 1 .. k - 1 : Script[j] = r
<1>1. k \in 1 .. 11
  BY ScriptNumbers
<1>2. /\ Script[3] = "manager" /\ Script[4] = "staff" /\ Script[5] = "guest1"
      /\ Script[7] = "conversation"
  BY DEF Script
<1>3. CASE k \in 1 .. 6 \/ k = 11
  <2>1. Script[k] \in {"tenant", "admin", "manager", "staff", "guest1", "guest2", "ticket2"}
    BY <1>3 DEF Script
  <2> QED BY <2>1 DEF Refs
<1>4. CASE k = 7
  <2>1. r \in {"guest1", "staff"}
    BY <1>4 DEF Script, Refs
  <2> QED BY <1>2, <1>4, <2>1
<1>5. CASE k = 8
  <2>1. r = "conversation"
    BY <1>5 DEF Script, Refs
  <2> QED BY <1>2, <1>5, <2>1
<1>6. CASE k = 9
  <2>1. r \in {"conversation", "staff"}
    BY <1>6 DEF Script, Refs
  <2> QED BY <1>2, <1>6, <2>1
<1>7. CASE k = 10
  <2>1. r \in {"guest1", "conversation", "manager"}
    BY <1>7 DEF Script, Refs
  <2> QED BY <1>2, <1>7, <2>1
<1> QED BY <1>1, <1>3, <1>4, <1>5, <1>6, <1>7

\* A run that has not stopped is at a statement of a hotel.
LEMMA AtStatement ==
  ASSUME TypeOK, NEW s \in Seeders, pc[s] # Stopped
  PROVE  /\ pc[s] = <<pc[s][1], Statement(s)>>
         /\ pc[s][1] \in 1 .. Len(Hotels) /\ Statement(s) \in 1 .. Len(Script)
         /\ HotelOf(s) \in HotelIds /\ Script[Statement(s)] \in Items
  BY HotelsAssumption, ScriptNumbers DEF TypeOK, HotelIds, HotelOf, Statement

\* What a run that has not stopped knows of the rows its next row refers to.
LEMMA ReferencesKnown ==
  ASSUME TypeOK, NEW s \in Seeders, pc[s] # Stopped, NEW r \in Refs(Script[Statement(s)])
  PROVE  result[s][r] # None /\ result[s][r] = id[HotelOf(s)][r]
<1>1. PICK j \in 1 .. Statement(s) - 1 : Script[j] = r
  BY AtStatement, ScriptOrdered
<1> QED BY <1>1 DEF TypeOK, Knows

-----------------------------------------------------------------------------
(* One step of a run *)

\* The row an upsert leaves, what it returns, and every other row.
LEMMA UpsertRow ==
  ASSUME TypeOK, NEW s \in Seeders, Upsert(s)
  PROVE  LET h == HotelOf(s)
             i == Script[Statement(s)]
         IN  /\ id' \in [HotelIds -> [Items -> Ids \union {None}]]
             /\ Returned(h, i) # None /\ id'[h][i] = Returned(h, i)
             /\ \A g \in HotelIds, j \in Items : id[g][j] # None => id'[g][j] = id[g][j]
             /\ \A g \in HotelIds, j \in Items : id[g][j] = None /\ id'[g][j] # None => g = h /\ j = i
<1> DEFINE h == HotelOf(s)
           i == Script[Statement(s)]
<1>1. h \in HotelIds /\ i \in Items
  BY AtStatement DEF Upsert
<1>2. id \in [HotelIds -> [Items -> Ids \union {None}]]
  BY DEF TypeOK
<1>3. id' = IF id[h][i] = None THEN [id EXCEPT ![h][i] = "demo"] ELSE id
  BY DEF Upsert
<1>4. "demo" \in Ids /\ "demo" # None
  BY NoneAssumption DEF Ids
<1> HIDE DEF h, i
<1>5. CASE id[h][i] = None
  <2>1. id' = [id EXCEPT ![h] = [id[h] EXCEPT ![i] = "demo"]]
    BY <1>3, <1>5
  <2>2. id'[h][i] = "demo" /\ Returned(h, i) = "demo"
    BY <1>1, <1>2, <1>5, <2>1 DEF Returned
  <2> QED BY <1>1, <1>2, <1>4, <1>5, <2>1, <2>2 DEF h, i
<1>6. CASE id[h][i] # None
  BY <1>2, <1>3, <1>6 DEF Returned, h, i
<1> QED BY <1>5, <1>6

\* Where a run stands after an upsert, and what it knows.
LEMMA AdvanceKnows ==
  ASSUME TypeOK, NEW s \in Seeders, Upsert(s)
  PROVE  /\ pc' \in [Seeders -> {Stopped} \union ((1 .. Len(Hotels)) \X (1 .. Len(Script)))]
         /\ result' \in [Seeders -> [Items -> Ids \union {None}]]
         /\ \A q \in Seeders : Knows(q)'
<1> DEFINE h == HotelOf(s)
           i == Script[Statement(s)]
           k == Statement(s)
           n == pc[s][1]
           new == Returned(h, i)
<1>1. /\ h \in HotelIds /\ i \in Items /\ k \in 1 .. Len(Script) /\ n \in 1 .. Len(Hotels)
      /\ Len(Hotels) \in Nat /\ Len(Script) = 11
  BY AtStatement, ScriptNumbers, HotelsAssumption DEF Upsert
<1>2. /\ id' \in [HotelIds -> [Items -> Ids \union {None}]]
      /\ new # None /\ id'[h][i] = new /\ new \in Ids \union {None}
      /\ \A g \in HotelIds, j \in Items : id[g][j] # None => id'[g][j] = id[g][j]
  <2>1. id'[h][i] \in Ids \union {None}
    BY <1>1, UpsertRow
  <2> QED BY <2>1, UpsertRow
<1>3. IF k < Len(Script)
        THEN /\ pc' = [pc EXCEPT ![s] = <<n, k + 1>>]
             /\ result' = [result EXCEPT ![s][i] = new]
        ELSE /\ pc' = [pc EXCEPT ![s] = IF n < Len(Hotels) THEN <<n + 1, 1>> ELSE Stopped]
             /\ result' = [result EXCEPT ![s] = NoResult]
  BY DEF Upsert, Advance, Statement
<1>4. ASSUME NEW q \in Seeders, pc'[q] = pc[q], result'[q] = result[q] PROVE Knows(q)'
  <2>1. SUFFICES ASSUME pc[q] # Stopped, NEW j \in 1 .. Statement(q) - 1
                 PROVE  /\ result'[q][Script[j]] # None
                        /\ result'[q][Script[j]] = id'[HotelOf(q)][Script[j]]
    BY <1>4 DEF Knows, HotelOf, Statement
  <2>2. HotelOf(q) \in HotelIds /\ Script[j] \in Items
    BY <2>1, AtStatement, ScriptNumbers
  <2>3. result[q][Script[j]] # None /\ result[q][Script[j]] = id[HotelOf(q)][Script[j]]
    BY <2>1 DEF TypeOK, Knows
  <2> QED BY <1>2, <1>4, <2>2, <2>3
<1>5. CASE k < Len(Script)
  <2>1. pc' = [pc EXCEPT ![s] = <<n, k + 1>>] /\ result' = [result EXCEPT ![s][i] = new]
    BY <1>3, <1>5
  <2>2. result \in [Seeders -> [Items -> Ids \union {None}]]
    BY DEF TypeOK
  <2>3. pc' \in [Seeders -> {Stopped} \union ((1 .. Len(Hotels)) \X (1 .. Len(Script)))]
    <3>1. <<n, k + 1>> \in (1 .. Len(Hotels)) \X (1 .. Len(Script))
      BY <1>1, <1>5
    <3> HIDE DEF n, k
    <3> QED BY <2>1, <3>1 DEF TypeOK
  <2>4. result' \in [Seeders -> [Items -> Ids \union {None}]]
    <3> HIDE DEF i, new
    <3> QED BY <1>1, <1>2, <2>1, <2>2
  <2>5. ASSUME NEW q \in Seeders, q # s PROVE Knows(q)'
    BY <1>4, <2>1, <2>2, <2>5 DEF TypeOK
  <2>6. Knows(s)'
    <3>1. pc'[s] = <<n, k + 1>>
      BY <2>1 DEF TypeOK
    <3>2. SUFFICES ASSUME NEW j \in 1 .. k
                   PROVE  result'[s][Script[j]] # None /\ result'[s][Script[j]] = id'[h][Script[j]]
      <4>1. HotelOf(s)' = h
        BY <3>1 DEF HotelOf
      <4>2. Statement(s)' - 1 = k
        BY <1>1, <3>1 DEF Statement
      <4>3. ASSUME NEW j \in 1 .. Statement(s)' - 1
            PROVE  result'[s][Script[j]] # None /\ result'[s][Script[j]] = id'[HotelOf(s)'][Script[j]]
        <5> HIDE DEF h, k
        <5> QED BY <3>2, <4>1, <4>2
      <4> HIDE DEF h, k
      <4> QED BY <4>3 DEF Knows
    <3>3. Script[j] \in Items
      BY <1>1, ScriptNumbers
    <3>4. CASE Script[j] = i
      BY <1>1, <1>2, <2>1, <2>2, <3>4
    <3>5. CASE Script[j] # i
      <4>1. j \in 1 .. k - 1
        BY <1>1, <3>5
      <4>2. result[s][Script[j]] # None /\ result[s][Script[j]] = id[h][Script[j]]
        BY <4>1 DEF TypeOK, Knows, Upsert
      <4>3. result'[s][Script[j]] = result[s][Script[j]]
        BY <1>1, <2>1, <2>2, <3>3, <3>5
      <4> QED BY <1>1, <1>2, <3>3, <4>2, <4>3
    <3> QED BY <3>4, <3>5
  <2> QED BY <2>3, <2>4, <2>5, <2>6
<1>6. CASE ~(k < Len(Script))
  <2>1. /\ pc' = [pc EXCEPT ![s] = IF n < Len(Hotels) THEN <<n + 1, 1>> ELSE Stopped]
        /\ result' = [result EXCEPT ![s] = NoResult]
    BY <1>3, <1>6
  <2>2. NoResult \in [Items -> Ids \union {None}]
    BY DEF NoResult
  <2>3. pc' \in [Seeders -> {Stopped} \union ((1 .. Len(Hotels)) \X (1 .. Len(Script)))]
    <3>1. n < Len(Hotels) => <<n + 1, 1>> \in (1 .. Len(Hotels)) \X (1 .. Len(Script))
      BY <1>1
    <3> HIDE DEF n
    <3> QED BY <2>1, <3>1 DEF TypeOK
  <2>4. result' \in [Seeders -> [Items -> Ids \union {None}]]
    BY <2>1, <2>2 DEF TypeOK
  <2>5. ASSUME NEW q \in Seeders, q # s PROVE Knows(q)'
    BY <1>4, <2>1, <2>5 DEF TypeOK
  <2>6. Knows(s)'
    <3>1. pc'[s] = Stopped \/ pc'[s][2] = 1
      BY <2>1 DEF TypeOK
    <3> QED BY <3>1 DEF Knows, Statement
  <2> QED BY <2>3, <2>4, <2>5, <2>6
<1> QED BY <1>5, <1>6

\* Whoever writes a demo user's role writes permissions that go with it.
LEMMA RoleWritten ==
  ASSUME TypeOK, NEW h \in HotelIds, NEW u \in DemoUsers, NEW r \in DemoUsers,
         NEW p \in {r, "custom"},
         role' = [role EXCEPT ![h][u] = r], permissions' = [permissions EXCEPT ![h][u] = p]
  PROVE  /\ role' \in [HotelIds -> [DemoUsers -> DemoUsers]]
         /\ permissions' \in [HotelIds -> [DemoUsers -> DemoUsers \union {"custom"}]]
         /\ DefaultsMatchRole => DefaultsMatchRole'
<1>1. role' \in [HotelIds -> [DemoUsers -> DemoUsers]]
  BY DEF TypeOK
<1>2. permissions' \in [HotelIds -> [DemoUsers -> DemoUsers \union {"custom"}]]
  <2>1. p \in DemoUsers \union {"custom"}
    OBVIOUS
  <2> QED BY <2>1 DEF TypeOK
<1>3. ASSUME DefaultsMatchRole, NEW g \in HotelIds, NEW x \in DemoUsers
      PROVE  permissions'[g][x] \in {role'[g][x], "custom"}
  <2>1. CASE g = h /\ x = u
    <3>1. permissions'[g][x] = p
      BY <2>1 DEF TypeOK
    <3>2. role'[g][x] = r
      BY <2>1 DEF TypeOK
    <3> QED BY <3>1, <3>2
  <2>2. CASE ~(g = h /\ x = u)
    <3>1. permissions'[g][x] = permissions[g][x]
      BY <2>2 DEF TypeOK
    <3>2. role'[g][x] = role[g][x]
      BY <2>2 DEF TypeOK
    <3> QED BY <1>3, <3>1, <3>2 DEF DefaultsMatchRole
  <2> QED BY <2>1, <2>2
<1> QED BY <1>1, <1>2, <1>3 DEF DefaultsMatchRole

\* An upsert writes both, of a demo user, or neither.
LEMMA UpsertRole ==
  ASSUME TypeOK, NEW s \in Seeders, Upsert(s)
  PROVE  /\ role' \in [HotelIds -> [DemoUsers -> DemoUsers]]
         /\ permissions' \in [HotelIds -> [DemoUsers -> DemoUsers \union {"custom"}]]
         /\ DefaultsMatchRole => DefaultsMatchRole'
<1> DEFINE h == HotelOf(s)
           i == Script[Statement(s)]
<1>1. \/ UNCHANGED <<role, permissions>>
      \/ /\ h \in HotelIds /\ i \in DemoUsers
         /\ role' = [role EXCEPT ![h][i] = i]
         /\ permissions' = [permissions EXCEPT ![h][i] = i]
  BY AtStatement DEF Upsert, ResetPermissions
<1>2. CASE UNCHANGED <<role, permissions>>
  BY <1>2 DEF TypeOK, DefaultsMatchRole
<1> HIDE DEF h, i
<1>3. CASE ~ UNCHANGED <<role, permissions>>
  BY <1>1, <1>3, RoleWritten
<1> QED BY <1>2, <1>3

\* So does the application.
LEMMA AppWriteRole ==
  ASSUME TypeOK, NEW h \in HotelIds, NEW u \in DemoUsers, AppWrite(h, u)
  PROVE  /\ role' \in [HotelIds -> [DemoUsers -> DemoUsers]]
         /\ permissions' \in [HotelIds -> [DemoUsers -> DemoUsers \union {"custom"}]]
         /\ DefaultsMatchRole => DefaultsMatchRole'
<1>1. PICK r \in DemoUsers :
        /\ role' = [role EXCEPT ![h][u] = r]
        /\ \E p \in {r, "custom"} : permissions' = [permissions EXCEPT ![h][u] = p]
  BY DEF AppWrite
<1>2. PICK p \in {r, "custom"} : permissions' = [permissions EXCEPT ![h][u] = p]
  BY <1>1
<1> QED BY <1>1, <1>2, RoleWritten

-----------------------------------------------------------------------------
(* The invariant *)

\* The shape of the state survives every step, and no run forgets or mistakes
\* the id of a row it has upserted.
LEMMA TypeStep == TypeOK /\ [Next]_vars => TypeOK'
<1> SUFFICES ASSUME TypeOK, [Next]_vars PROVE TypeOK'
  OBVIOUS
<1>1. ASSUME NEW s \in Seeders, StartRun(s) PROVE TypeOK'
  <2>1. <<1, 1>> \in (1 .. Len(Hotels)) \X (1 .. Len(Script))
    BY HotelsAssumption, ScriptNumbers
  <2>2. NoResult \in [Items -> Ids \union {None}]
    BY DEF NoResult
  <2>3. pc' \in [Seeders -> {Stopped} \union ((1 .. Len(Hotels)) \X (1 .. Len(Script)))]
    BY <1>1, <2>1 DEF StartRun, TypeOK
  <2>4. result' \in [Seeders -> [Items -> Ids \union {None}]]
    BY <1>1, <2>2 DEF StartRun, TypeOK
  <2>5. ASSUME NEW q \in Seeders PROVE Knows(q)'
    <3>1. CASE q = s
      <4>1. pc'[s][2] = 1
        BY <1>1 DEF StartRun, TypeOK
      <4> QED BY <3>1, <4>1 DEF Knows, Statement
    <3>2. CASE q # s
      BY <1>1, <3>2 DEF StartRun, TypeOK, Knows, HotelOf, Statement
    <3> QED BY <3>1, <3>2
  <2> QED BY <1>1, <2>3, <2>4, <2>5 DEF StartRun, TypeOK
<1>2. ASSUME NEW s \in Seeders, Upsert(s) PROVE TypeOK'
  <2> DEFINE h == HotelOf(s)
             i == Script[Statement(s)]
  <2>1. h \in HotelIds /\ i \in Items
    BY <1>2, AtStatement DEF Upsert
  <2>2. /\ refs' \in [HotelIds -> [Items -> References]]
        /\ \A g \in HotelIds, j \in Items : DOMAIN refs'[g][j] = Refs(j)
    <3>1. Reference(s, i) \in [Refs(i) -> Ids \union {None}]
      <4>1. \A r \in Refs(i) : result[s][r] = id[h][r]
        BY <1>2, ReferencesKnown DEF Upsert
      <4>2. \A r \in Refs(i) : r \in Items
        BY <1>2, AtStatement, ScriptOrdered, ScriptNumbers DEF Upsert
      <4> QED BY <2>1, <4>1, <4>2 DEF Reference, TypeOK
    <3>2. Reference(s, i) \in References /\ DOMAIN Reference(s, i) = Refs(i)
      BY <2>1, <3>1 DEF References
    <3>3. refs' = IF id[h][i] = None THEN [refs EXCEPT ![h][i] = Reference(s, i)] ELSE refs
      BY <1>2 DEF Upsert
    <3> HIDE DEF h, i
    <3> QED BY <2>1, <3>2, <3>3 DEF TypeOK
  <2>4. edits' = edits
    BY <1>2 DEF Upsert
  <2> QED BY <1>2, <2>2, <2>4, UpsertRow, UpsertRole, AdvanceKnows DEF TypeOK
<1>3. ASSUME NEW s \in Seeders, Exit(s) PROVE TypeOK'
  BY <1>3 DEF Exit, TypeOK, Knows, HotelOf, Statement
<1>4. ASSUME NEW h \in HotelIds, NEW u \in DemoUsers, AppWrite(h, u) PROVE TypeOK'
  <2>1. u \in Items /\ "generated" \in Ids
    BY DemoUsersListed DEF Ids
  <2>2. id' \in [HotelIds -> [Items -> Ids \union {None}]]
    BY <1>4, <2>1 DEF AppWrite, TypeOK
  <2>3. \A g \in HotelIds, j \in Items : id[g][j] # None => id'[g][j] = id[g][j]
    BY <1>4, <2>1 DEF AppWrite, TypeOK
  <2>4. /\ role' \in [HotelIds -> [DemoUsers -> DemoUsers]]
        /\ permissions' \in [HotelIds -> [DemoUsers -> DemoUsers \union {"custom"}]]
    BY <1>4, AppWriteRole
  <2>5. ASSUME NEW s \in Seeders PROVE Knows(s)'
    <3>1. SUFFICES ASSUME pc[s] # Stopped, NEW j \in 1 .. Statement(s) - 1
                   PROVE  /\ result[s][Script[j]] # None
                          /\ result[s][Script[j]] = id'[HotelOf(s)][Script[j]]
      BY <1>4 DEF AppWrite, Knows, HotelOf, Statement
    <3>2. HotelOf(s) \in HotelIds /\ Script[j] \in Items
      BY <3>1, AtStatement, ScriptNumbers
    <3> QED BY <2>3, <3>1, <3>2 DEF TypeOK, Knows
  <2>6. edits' \in 0 .. MaxEdits
    BY <1>4, MaxEditsAssumption DEF AppWrite, TypeOK
  <2> QED BY <1>4, <2>2, <2>4, <2>5, <2>6 DEF AppWrite, TypeOK
<1>5. CASE UNCHANGED vars
  BY <1>5 DEF vars, TypeOK, Knows, HotelOf, Statement
<1> QED BY <1>1, <1>2, <1>3, <1>4, <1>5 DEF Next

\* The shape of the state; however runs overlap, fail and are repeated, a run
\* knows the id of every row it has upserted.
THEOREM TypeCorrect == Spec => []TypeOK
<1>1. Init => TypeOK
  <2> SUFFICES ASSUME Init PROVE TypeOK
    OBVIOUS
  <2>1. NoResult \in [Items -> Ids \union {None}]
    BY DEF NoResult
  <2>2. NoRefs \in [Items -> References] /\ \A i \in Items : DOMAIN NoRefs[i] = Refs(i)
    <3>1. \A i \in Items : [r \in Refs(i) |-> None] \in [Refs(i) -> Ids \union {None}]
      OBVIOUS
    <3> QED BY <3>1 DEF NoRefs, References
  <2> QED
    BY <2>1, <2>2, MaxEditsAssumption DEF Init, TypeOK, Knows, DemoUsers
<1> QED BY <1>1, TypeStep, PTL DEF Spec

-----------------------------------------------------------------------------
(* References and permissions *)

\* A row is created with references that resolve, and no row ever changes its
\* id or what it refers to.
LEMMA ReferencesStep == TypeOK /\ ReferencesResolve /\ [Next]_vars => ReferencesResolve'
<1> SUFFICES ASSUME TypeOK, ReferencesResolve, [Next]_vars,
                    NEW h \in HotelIds, NEW i \in Items, id'[h][i] # None, NEW r \in Refs(i)
             PROVE  refs'[h][i][r] # None /\ refs'[h][i][r] = id'[h][r]
  BY DEF ReferencesResolve
<1>1. r \in Items
  <2>1. PICK k \in 1 .. Len(Script) : Script[k] = i
    BY ScriptNumbers DEF Items, Script
  <2> QED BY <2>1, ScriptOrdered, ScriptNumbers
<1>2. ASSUME refs'[h][i] = refs[h][i], id[h][i] # None, id[h][r] # None => id'[h][r] = id[h][r]
      PROVE  refs'[h][i][r] # None /\ refs'[h][i][r] = id'[h][r]
  BY <1>2 DEF ReferencesResolve
<1>3. ASSUME NEW s \in Seeders, Upsert(s)
      PROVE  refs'[h][i][r] # None /\ refs'[h][i][r] = id'[h][r]
  <2> DEFINE g == HotelOf(s)
             j == Script[Statement(s)]
  <2>1. g \in HotelIds /\ j \in Items
    BY <1>3, AtStatement DEF Upsert
  <2>2. refs' = IF id[g][j] = None THEN [refs EXCEPT ![g][j] = Reference(s, j)] ELSE refs
    BY <1>3 DEF Upsert
  <2>3. CASE id[h][i] = None
    <3>1. h = g /\ i = j
      BY <1>3, <2>3, UpsertRow
    <3>2. refs'[h][i] = [x \in Refs(i) |-> result[s][x]]
      BY <2>1, <2>2, <2>3, <3>1 DEF TypeOK, Reference
    <3>3. result[s][r] # None /\ result[s][r] = id[h][r]
      BY <1>3, <3>1, ReferencesKnown DEF Upsert
    <3> QED BY <1>1, <1>3, <3>2, <3>3, UpsertRow
  <2>4. CASE id[h][i] # None
    <3>1. refs'[h][i] = refs[h][i]
      BY <2>1, <2>2, <2>4 DEF TypeOK
    <3> QED BY <1>1, <1>2, <1>3, <2>4, <3>1, UpsertRow
  <2> QED BY <2>3, <2>4
<1>4. ASSUME NEW g \in HotelIds, NEW u \in DemoUsers, AppWrite(g, u)
      PROVE  refs'[h][i][r] # None /\ refs'[h][i][r] = id'[h][r]
  <2>1. u \in Items /\ i # u
    BY DemoUsersListed
  <2>2. id'[h][i] = id[h][i] /\ (id[h][r] # None => id'[h][r] = id[h][r])
    BY <1>1, <1>4, <2>1 DEF AppWrite, TypeOK
  <2> QED BY <1>2, <1>4, <2>2 DEF AppWrite
<1>5. ASSUME UNCHANGED vars \/ \E s \in Seeders : StartRun(s) \/ Exit(s)
      PROVE  refs'[h][i][r] # None /\ refs'[h][i][r] = id'[h][r]
  BY <1>2, <1>5 DEF vars, StartRun, Exit
<1> QED BY <1>3, <1>4, <1>5 DEF Next

\* Every reference leads to the row it means, in the same hotel, although
\* nothing but the script keeps it right.
THEOREM Resolved == Spec => []ReferencesResolve
<1>1. Init => ReferencesResolve
  BY DEF Init, ReferencesResolve, NoResult
<1> QED BY <1>1, TypeCorrect, ReferencesStep, PTL DEF Spec

\* Who writes the role writes the permissions that go with it.
LEMMA DefaultsStep == TypeOK /\ DefaultsMatchRole /\ [Next]_vars => DefaultsMatchRole'
<1> SUFFICES ASSUME TypeOK, DefaultsMatchRole, [Next]_vars PROVE DefaultsMatchRole'
  OBVIOUS
<1>1. CASE UNCHANGED <<role, permissions>>
  BY <1>1 DEF DefaultsMatchRole
<1>2. ASSUME NEW s \in Seeders, Upsert(s) PROVE DefaultsMatchRole'
  BY <1>2, UpsertRole
<1>3. ASSUME NEW h \in HotelIds, NEW u \in DemoUsers, AppWrite(h, u) PROVE DefaultsMatchRole'
  BY <1>3, AppWriteRole
<1> QED BY <1>1, <1>2, <1>3 DEF Next, vars, StartRun, Exit

\* Permissions nobody set by hand are the defaults of the present role, also
\* after the seed has put a demo user back into their role.
THEOREM Defaults == Spec => []DefaultsMatchRole
<1>1. Init => DefaultsMatchRole
  BY DEF Init, DefaultsMatchRole
<1> QED BY <1>1, TypeCorrect, DefaultsStep, PTL DEF Spec

=============================================================================
