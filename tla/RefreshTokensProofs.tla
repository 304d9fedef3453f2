------------------------- MODULE RefreshTokensProofs -------------------------
(***************************************************************************)
(* Proofs about RefreshTokens for any number of requests, tokens, families *)
(* and users, any lifetime and any bound on the clock, last that it        *)
(* implements SessionChain.                                                *)
(***************************************************************************)
EXTENDS RefreshTokens, TLAPS

\* Assigning a well-formed record to one request keeps all of them well formed.
LEMMA RequestAssigned ==
  ASSUME RequestsOK, NEW r \in Requests, NEW s \in RequestState,
         req' = [req EXCEPT ![r] = s],
         s.pc # "idle" => s.usr \in Users,
         s.pc \notin {"idle", "login"} => s.fam \in Families,
         s.pc \in {"claim", "user", "reuse"} => s.tok \in Tokens,
         s.pc \in Issuing => s.new \in Tokens
  PROVE  RequestsOK'
  BY DEF RequestsOK

\* Moving one request to another place in the code, what it holds unchanged.
LEMMA RequestMoved ==
  ASSUME RequestsOK, NEW r \in Requests,
         NEW pc \in {"idle", "claim"} \union Holding \union Revoking,
         req' = [req EXCEPT ![r].pc = pc],
         req[r].pc \notin {"idle", "login"},
         pc \in {"claim", "user", "reuse"} => req[r].tok \in Tokens,
         pc \in Issuing => req[r].new \in Tokens
  PROVE  RequestsOK'
<1> DEFINE s == [req[r] EXCEPT !.pc = pc]
<1>1. req[r] \in RequestState
  BY DEF RequestsOK
<1>2. /\ s \in RequestState
      /\ s.pc = pc /\ s.fam = req[r].fam /\ s.usr = req[r].usr
      /\ s.tok = req[r].tok /\ s.new = req[r].new
  BY <1>1 DEF RequestState
<1>3. req' = [req EXCEPT ![r] = s]
  BY DEF RequestsOK
<1> HIDE DEF s
<1> QED
  BY <1>2, <1>3, RequestAssigned DEF RequestsOK

\* A request that is answered frees its slot.
LEMMA RequestAnswered ==
  ASSUME RequestsOK, NEW r \in Requests, Answer(r)
  PROVE  RequestsOK'
<1>1. Idle \in RequestState /\ Idle.pc = "idle"
  BY DEF Idle, RequestState
<1> QED
  BY <1>1, RequestAssigned DEF Answer, Issuing

\* A request that signs a token holds it, with its session and its user.
LEMMA RequestSigned ==
  ASSUME TypeOK, NEW r \in Requests, NEW t \in Tokens, NEW f \in Families, NEW u \in Users,
         NEW old \in Tokens \union {None}, Sign(r, t, f, u, old)
  PROVE  RequestsOK' /\ exp' \in [Tokens -> Nat]
<1> DEFINE s == [pc |-> "purge", tok |-> old, fam |-> f, usr |-> u, new |-> t]
<1>1. s \in RequestState
  BY DEF RequestState, Holding, Issuing
<1>2. s.pc = "purge" /\ s.fam = f /\ s.usr = u /\ s.new = t
  OBVIOUS
<1>3. req' = [req EXCEPT ![r] = s]
  BY DEF Sign
<1> HIDE DEF s
<1>4. RequestsOK'
  BY <1>1, <1>2, <1>3, RequestAssigned DEF TypeOK, Issuing
<1>5. exp' \in [Tokens -> Nat]
  BY LifetimeAssumption DEF TypeOK, Sign
<1> QED
  BY <1>4, <1>5

\* The rows that findByHash returns are rows of the table.
LEMMA RowOf ==
  ASSUME TypeOK, NEW t \in Tokens, Stored(t)
  PROVE  rows[t] \in Row
  BY DEF TypeOK, Stored

\* Revoking rows keeps the shape of the table.
LEMMA RevokeType ==
  ASSUME TypeOK, NEW t \in Tokens, Live(t)
  PROVE  Revoke(t) \in Row
  BY RowOf DEF Live, Revoke, Row

\* The shape of the state survives every step of the code.
LEMMA TypeStep == TypeOK /\ [Next]_vars => TypeOK'
<1> SUFFICES ASSUME TypeOK, [Next]_vars PROVE TypeOK'
  OBVIOUS
<1>1. CASE UNCHANGED vars
  BY <1>1 DEF TypeOK, RequestsOK, vars
<1>2. ASSUME NEW r \in Requests, NEW f \in Families, NEW t \in Tokens, Login(r, f, t)
      PROVE  TypeOK'
  <2>1. req[r].usr \in Users
    BY <1>2 DEF TypeOK, RequestsOK, Login
  <2> QED
    BY <1>2, <2>1, RequestSigned DEF TypeOK, Login
<1>3. ASSUME NEW r \in Requests, NEW t \in Tokens, RefreshFind(r, t) \/ LogoutFind(r, t)
      PROVE  TypeOK'
  <2>1. rows[t].family \in Families /\ rows[t].user \in Users
    BY <1>3, RowOf DEF RefreshFind, LogoutFind, Presentable, Row
  <2>2. PICK pc \in {"claim", "logout"} :
          req' = [req EXCEPT ![r] = [pc |-> pc, tok |-> t, fam |-> rows[t].family,
                                     usr |-> rows[t].user, new |-> None]]
    BY <1>3 DEF RefreshFind, LogoutFind
  <2> DEFINE s == [pc |-> pc, tok |-> t, fam |-> rows[t].family, usr |-> rows[t].user, new |-> None]
  <2>3. s \in RequestState
    BY <2>1 DEF RequestState, Holding, Issuing, Revoking
  <2>4. s.pc = pc /\ s.tok = t /\ s.fam = rows[t].family /\ s.usr = rows[t].user
    OBVIOUS
  <2>5. req' = [req EXCEPT ![r] = s]
    BY <2>2
  <2> HIDE DEF s
  <2>6. RequestsOK'
    BY <2>1, <2>3, <2>4, <2>5, RequestAssigned DEF TypeOK, Issuing
  <2> QED
    BY <1>3, <2>6 DEF TypeOK, RefreshFind, LogoutFind
<1>4. ASSUME NEW r \in Requests, ClaimWon(r)
      PROVE  TypeOK'
  <2>1. req[r].tok \in Tokens
    BY <1>4 DEF TypeOK, RequestsOK, ClaimWon
  <2>2. RequestsOK'
    BY <1>4, <2>1, RequestMoved DEF TypeOK, ClaimWon, Holding, Issuing
  <2>3. rows' \in [Tokens -> Row \union {None}]
    BY <1>4, <2>1, RevokeType DEF TypeOK, ClaimWon, Claimable
  <2> QED
    BY <1>4, <2>1, <2>2, <2>3 DEF TypeOK, ClaimWon
<1>5. ASSUME NEW r \in Requests, ClaimLost(r) \/ UserRefused(r)
      PROVE  TypeOK'
  <2>1. RequestsOK'
    BY <1>5, RequestMoved DEF TypeOK, RequestsOK, ClaimLost, UserRefused, Revoking, Issuing
  <2> QED
    BY <1>5, <2>1 DEF TypeOK, ClaimLost, UserRefused
<1>6. ASSUME NEW r \in Requests, NEW t \in Tokens, UserAccepted(r, t)
      PROVE  TypeOK'
  <2>1. req[r].fam \in Families /\ req[r].usr \in Users /\ req[r].tok \in Tokens
    BY <1>6 DEF TypeOK, RequestsOK, UserAccepted
  <2> QED
    BY <1>6, <2>1, RequestSigned DEF TypeOK, UserAccepted
<1>7. ASSUME NEW r \in Requests, Purge(r)
      PROVE  TypeOK'
  <2>1. RequestsOK'
    BY <1>7, RequestMoved DEF TypeOK, RequestsOK, Purge, Holding, Issuing
  <2> QED
    BY <1>7, <2>1 DEF TypeOK, Purge
<1>8. ASSUME NEW r \in Requests, Create(r)
      PROVE  TypeOK'
  <2>1. req[r].new \in Tokens /\ req[r].fam \in Families /\ req[r].usr \in Users
    BY <1>8 DEF TypeOK, RequestsOK, Create, Issuing
  <2>2. rows' \in [Tokens -> Row \union {None}]
    BY <1>8, <2>1 DEF TypeOK, Create, Row
  <2> QED
    BY <1>8, <2>2, RequestAnswered DEF TypeOK, Create
<1>9. ASSUME NEW r \in Requests, RevokeFamily(r)
      PROVE  TypeOK'
  <2>1. RevokeAllOf(req[r].fam) \in [Tokens -> Row \union {None}]
    BY RevokeType DEF TypeOK, RevokeAllOf, LiveIn
  <2>2. req[r].fam \in Families
    BY <1>9 DEF TypeOK, RequestsOK, RevokeFamily, Revoking
  <2> QED
    BY <1>9, <2>1, <2>2, RequestAnswered DEF TypeOK, RevokeFamily
<1>10. ASSUME NEW r \in Requests, Fail(r)
       PROVE  TypeOK'
  BY <1>10, RequestAnswered DEF TypeOK, Fail
<1>11. ASSUME NEW u \in Users, SetActive(u)
       PROVE  TypeOK'
  BY <1>11 DEF TypeOK, RequestsOK, SetActive
<1>12. CASE Tick
  BY <1>12 DEF TypeOK, RequestsOK, Tick
<1>13. ASSUME NEW r \in Requests, NEW u \in Users, LoginFind(r, u)
       PROVE  TypeOK'
  <2> DEFINE s == [Idle EXCEPT !.pc = "login", !.usr = u]
  <2>1. s \in RequestState /\ s.pc = "login" /\ s.usr = u
    BY DEF Idle, RequestState
  <2>2. req' = [req EXCEPT ![r] = s]
    BY <1>13 DEF LoginFind
  <2> HIDE DEF s
  <2>3. RequestsOK'
    BY <2>1, <2>2, RequestAssigned DEF TypeOK, Issuing
  <2> QED
    BY <1>13, <2>3 DEF TypeOK, LoginFind
<1> QED
  BY <1>1, <1>2, <1>3, <1>4, <1>5, <1>6, <1>7, <1>8, <1>9, <1>10, <1>11, <1>12,
     <1>13 DEF Next, Continue

\* Type correctness of the refresh-token store and of the requests on it, for
\* every value of the constants.
THEOREM TypeCorrect == Spec => []TypeOK
<1>1. Init => TypeOK
  BY DEF Init, TypeOK, RequestsOK, Idle, RequestState, Issuing
<1> QED
  BY <1>1, TypeStep, PTL DEF Spec

-----------------------------------------------------------------------------
(* The inductive invariant *)

\* Nothing live and nobody issuing, row by row and request by request.
Closed(f) ==
  /\ \A t \in Tokens : Live(t) => rows[t].family # f
  /\ \A r \in Requests : req[r].pc \in Holding => req[r].fam # f

\* Families and tokens in use were drawn before, so a fresh one is unrelated
\* to them; a token being issued is in no row and in no other request.
Accounted ==
  /\ \A r \in Requests : req[r].pc \notin {"idle", "login"} => req[r].fam \in started
  /\ \A t \in Tokens : Stored(t) =>
       rows[t].family \in started /\ exp[t] = rows[t].expiresAt /\ exp[t] # 0
  /\ \A t \in spent : exp[t] # 0
  /\ \A r \in Requests : req[r].pc \in {"claim", "user", "reuse"} => exp[req[r].tok] # 0
  /\ \A r \in Requests : req[r].pc \in Issuing =>
       exp[req[r].new] # 0 /\ ~Stored(req[r].new) /\ req[r].new \notin spent
  /\ \A r, q \in Requests :
       req[r].pc \in Issuing /\ req[q].pc \in Issuing /\ req[r].new = req[q].new => r = q
  /\ \A r, q \in Requests :
       req[r].pc \in {"claim", "user", "reuse"} /\ req[q].pc \in Issuing => req[r].tok # req[q].new

\* What findByHash returned still describes the row when the claim is made.
ReadRowHolds ==
  \A r \in Requests :
    req[r].pc = "claim" /\ Stored(req[r].tok) => rows[req[r].tok].family = req[r].fam

\* OneTokenPerFamily, pair by pair.
Exclusive ==
  /\ \A t, v \in Tokens : Live(t) /\ Live(v) /\ rows[t].family = rows[v].family => t = v
  /\ \A r, q \in Requests :
       req[r].pc \in Holding /\ req[q].pc \in Holding /\ req[r].fam = req[q].fam => r = q
  /\ \A t \in Tokens, r \in Requests :
       Live(t) /\ req[r].pc \in Holding => rows[t].family # req[r].fam

\* An exchanged token is never live again, and its row outlasts its validity.
SpentOK == \A t \in spent : ~Live(t) /\ (exp[t] > now => Stored(t))

\* A token that was not exchanged and is no longer live was the last of its
\* family, wherever that token is: in the table, or held by a request.
LastOfFamily ==
  /\ \A t \in Tokens : Stored(t) /\ ~Live(t) /\ t \notin spent => Closed(rows[t].family)
  /\ \A r \in Requests :
       /\ req[r].pc = "claim" /\ ~Live(req[r].tok) /\ req[r].tok \notin spent => Closed(req[r].fam)
       /\ req[r].pc = "reuse" /\ req[r].tok \notin spent => Closed(req[r].fam)

IInv == TypeOK /\ Accounted /\ ReadRowHolds /\ Exclusive /\ SpentOK /\ LastOfFamily

\* A login that has read its user works on no session yet.
LEMMA LoginFindKeeps ==
  ASSUME IInv, NEW r \in Requests, NEW u \in Users, LoginFind(r, u), TypeOK'
  PROVE  IInv'
<1>1. req'[r].pc = "login" /\ \A q \in Requests \ {r} : req'[q] = req[q]
  BY DEF IInv, TypeOK, RequestsOK, LoginFind, Idle
<1>2. UNCHANGED <<now, exp, rows, started, spent>>
  BY DEF LoginFind
<1>3. Accounted'
  BY <1>1, <1>2 DEF IInv, Accounted, Issuing, Stored
<1>4. ReadRowHolds'
  BY <1>1, <1>2 DEF IInv, ReadRowHolds, Stored
<1>5. Exclusive'
  BY <1>1, <1>2 DEF IInv, Exclusive, Issuing, Holding, Stored, Live
<1>6. SpentOK'
  BY <1>2 DEF IInv, SpentOK, Stored, Live
<1>7. LastOfFamily'
  BY <1>1, <1>2 DEF IInv, LastOfFamily, Closed, Issuing, Holding, Stored, Live
<1> QED
  BY <1>3, <1>4, <1>5, <1>6, <1>7 DEF IInv

\* A login works on a family and a token that nothing refers to yet.
LEMMA LoginKeeps ==
  ASSUME IInv, NEW r \in Requests, NEW f \in Families, NEW t \in Tokens,
         Login(r, f, t), TypeOK'
  PROVE  IInv'
<1>1. Accounted'
  BY LifetimeAssumption DEF IInv, Accounted, Stored, Sign, TypeOK, Login
<1>2. ReadRowHolds'
  BY DEF IInv, ReadRowHolds, Stored, Sign, Login
<1>3. Exclusive'
  BY DEF IInv, Exclusive, Accounted, Issuing, Holding, Stored, Live, Sign, Login,
     FreshFamily
<1>4. SpentOK'
  BY DEF IInv, SpentOK, Accounted, Stored, Live, Sign, Login
<1>5. LastOfFamily'
  BY DEF IInv, LastOfFamily, Closed, Accounted, Stored, Live, Sign, Login, FreshFamily
<1> QED
  BY <1>1, <1>2, <1>3, <1>4, <1>5 DEF IInv

\* findByHash returns a row: what it says of the token is known from then on.
LEMMA RefreshFindKeeps ==
  ASSUME IInv, NEW r \in Requests, NEW t \in Tokens, RefreshFind(r, t), TypeOK'
  PROVE  IInv'
<1>1. Accounted'
  BY NoneAssumption DEF IInv, Accounted, Stored, Presentable, RequestsOK, TypeOK,
     RefreshFind
<1>2. ReadRowHolds'
  BY DEF IInv, ReadRowHolds, Stored, RefreshFind
<1>3. Exclusive'
  BY NoneAssumption DEF IInv, Exclusive, Holding, Stored, Live, RequestsOK, TypeOK,
     RefreshFind
<1>4. SpentOK'
  BY DEF IInv, SpentOK, Stored, Live, RefreshFind
<1>5. LastOfFamily'
  BY NoneAssumption DEF IInv, LastOfFamily, Closed, Holding, Stored, Live, Presentable,
     RequestsOK, TypeOK, RefreshFind
<1> QED
  BY <1>1, <1>2, <1>3, <1>4, <1>5 DEF IInv

\* The claimed token was the only live one of its family; the request takes its place.
LEMMA ClaimWonKeeps ==
  ASSUME IInv, NEW r \in Requests, ClaimWon(r), TypeOK'
  PROVE  IInv'
<1>1. Accounted'
  BY DEF IInv, Accounted, Issuing, Stored, Live, Claimable, Revoke, ClaimWon
<1>2. ReadRowHolds'
  BY DEF IInv, ReadRowHolds, Stored, Live, Claimable, Revoke, ClaimWon
<1>3. Exclusive'
  BY DEF IInv, Exclusive, ReadRowHolds, Stored, Live, Claimable, Revoke, TypeOK, ClaimWon
<1>4. SpentOK'
  <2> DEFINE v == req[r].tok
  <2>1. v \in Tokens /\ Live(v)
    BY DEF IInv, TypeOK, RequestsOK, ClaimWon, Claimable
  <2>2. Revoke(v) # None /\ Revoke(v).revoked = TRUE
    BY <2>1, NoneAssumption, RevokeType DEF IInv, Row, Revoke
  <2>3. \A t \in Tokens : rows'[t] = IF t = v THEN Revoke(v) ELSE rows[t]
    BY <2>1 DEF IInv, TypeOK, ClaimWon
  <2>4. ASSUME NEW t \in spent'
        PROVE  ~Live(t)' /\ (exp'[t] > now' => Stored(t)')
    BY <2>1, <2>2, <2>3, <2>4 DEF IInv, TypeOK, SpentOK, ClaimWon, Live, Stored
  <2> QED
    BY <2>4 DEF SpentOK
<1>5. LastOfFamily'
  <2> DEFINE v == req[r].tok
  <2>1. v \in Tokens /\ Live(v) /\ rows[v].family = req[r].fam
    BY DEF IInv, TypeOK, RequestsOK, ReadRowHolds, ClaimWon, Claimable, Live
  <2>2. \A t \in Tokens :
          /\ t = v => ~Live(t)' /\ t \in spent'
          /\ t # v => rows'[t] = rows[t] /\ (Live(t)' <=> Live(t)) /\ (t \in spent' <=> t \in spent)
          /\ Stored(t)' /\ t # v => Stored(t)
    BY <2>1 DEF IInv, TypeOK, ClaimWon, Revoke, Live, Stored
  <2>3. /\ req'[r].pc = "user" /\ req'[r].fam = req[r].fam
        /\ \A q \in Requests \ {r} : req'[q] = req[q]
    BY DEF IInv, TypeOK, RequestsOK, ClaimWon
  <2>4. ASSUME NEW f, Closed(f) PROVE Closed(f)'
    BY <2>1, <2>2, <2>3, <2>4 DEF Closed
  <2>5. ASSUME NEW t \in Tokens, Stored(t)', ~Live(t)', t \notin spent'
        PROVE  Closed(rows[t].family)'
    <3>1. Closed(rows[t].family) /\ rows'[t] = rows[t]
      BY <2>2, <2>5 DEF IInv, LastOfFamily
    <3> QED
      BY <3>1, <2>4 DEF Closed
  <2>6. ASSUME NEW q \in Requests,
               \/ req'[q].pc = "claim" /\ ~Live(req[q].tok)' /\ req'[q].tok \notin spent'
               \/ req'[q].pc = "reuse" /\ req'[q].tok \notin spent'
        PROVE  Closed(req[q].fam)'
    <3>1. req'[q] = req[q] /\ req[q].tok \in Tokens
      BY <2>3, <2>6 DEF IInv, TypeOK, RequestsOK
    <3>2. Closed(req[q].fam)
      BY <2>2, <2>6, <3>1 DEF IInv, LastOfFamily, Live, Stored
    <3> QED
      BY <3>1, <3>2, <2>4 DEF Closed
  <2> QED
    BY <2>5, <2>6 DEF LastOfFamily
<1> QED
  BY <1>1, <1>2, <1>3, <1>4, <1>5 DEF IInv

\* A failed claim only turns the request to the revocation.
LEMMA ClaimLostKeeps ==
  ASSUME IInv, NEW r \in Requests, ClaimLost(r), TypeOK'
  PROVE  IInv'
<1>1. Accounted'
  BY DEF IInv, Accounted, Issuing, Stored, ClaimLost
<1>2. ReadRowHolds'
  BY DEF IInv, ReadRowHolds, Stored, ClaimLost
<1>3. Exclusive'
  BY DEF IInv, Exclusive, Issuing, Holding, Stored, Live, ClaimLost
<1>4. SpentOK'
  BY DEF IInv, SpentOK, Stored, Live, ClaimLost
<1>5. LastOfFamily'
  BY DEF IInv, LastOfFamily, Closed, Issuing, Holding, Stored, Live, Claimable, ClaimLost
<1> QED
  BY <1>1, <1>2, <1>3, <1>4, <1>5 DEF IInv

\* Signing draws a token that is in no row and in no other request.
LEMMA UserAcceptedKeeps ==
  ASSUME IInv, NEW r \in Requests, NEW t \in Tokens, UserAccepted(r, t), TypeOK'
  PROVE  IInv'
<1>1. Accounted'
  BY LifetimeAssumption DEF IInv, Accounted, Stored, Sign, TypeOK, UserAccepted
<1>2. ReadRowHolds'
  BY DEF IInv, ReadRowHolds, Stored, Sign, UserAccepted
<1>3. Exclusive'
  BY DEF IInv, Exclusive, Holding, Stored, Live, Sign, UserAccepted
<1>4. SpentOK'
  BY DEF IInv, SpentOK, Accounted, Stored, Live, Sign, UserAccepted
<1>5. LastOfFamily'
  BY DEF IInv, LastOfFamily, Closed, Holding, Stored, Live, Sign, UserAccepted
<1> QED
  BY <1>1, <1>2, <1>3, <1>4, <1>5 DEF IInv

\* A refused user gives the right to issue back.
LEMMA UserRefusedKeeps ==
  ASSUME IInv, NEW r \in Requests, UserRefused(r), TypeOK'
  PROVE  IInv'
<1>1. Accounted'
  BY DEF IInv, Accounted, Issuing, Stored, UserRefused
<1>2. ReadRowHolds'
  BY DEF IInv, ReadRowHolds, Stored, UserRefused
<1>3. Exclusive'
  BY DEF IInv, Exclusive, Holding, Stored, Live, UserRefused
<1>4. SpentOK'
  BY DEF IInv, SpentOK, Stored, Live, UserRefused
<1>5. LastOfFamily'
  BY DEF IInv, LastOfFamily, Closed, Holding, Stored, Live, UserRefused
<1> QED
  BY <1>1, <1>2, <1>3, <1>4, <1>5 DEF IInv

\* The clean-up only removes rows, and of exchanged tokens only expired ones.
LEMMA PurgeKeeps ==
  ASSUME IInv, NEW r \in Requests, Purge(r), TypeOK'
  PROVE  IInv'
<1>1. Accounted'
  BY DEF IInv, Accounted, Issuing, Stored, RequestsOK, TypeOK, Purge
<1>2. ReadRowHolds'
  BY DEF IInv, ReadRowHolds, Stored, RequestsOK, TypeOK, Purge
<1>3. Exclusive'
  BY DEF IInv, Exclusive, Issuing, Holding, Stored, Live, Purge
<1>4. SpentOK'
  BY DEF IInv, SpentOK, Accounted, Stored, Live, ExpiredRow, TypeOK, Purge
<1>5. LastOfFamily'
  BY DEF IInv, LastOfFamily, Closed, ReadRowHolds, Exclusive, Issuing, Holding, Stored,
     Live, RequestsOK, TypeOK, Purge
<1> QED
  BY <1>1, <1>2, <1>3, <1>4, <1>5 DEF IInv

\* The issuer's right turns into the live token it stores.
LEMMA CreateKeeps ==
  ASSUME IInv, NEW r \in Requests, Create(r), TypeOK'
  PROVE  IInv'
<1>1. Accounted'
  BY DEF IInv, Accounted, Issuing, Stored, Answer, Idle, RequestsOK, TypeOK, Create
<1>2. ReadRowHolds'
  BY DEF IInv, ReadRowHolds, Accounted, Issuing, Stored, Answer, Idle, Create
<1>3. Exclusive'
  BY DEF IInv, Exclusive, Issuing, Holding, Stored, Live, Answer, Idle, RequestsOK, TypeOK,
     Create
<1>4. SpentOK'
  BY DEF IInv, SpentOK, Accounted, Issuing, Stored, Live, Create
<1>5. LastOfFamily'
  BY DEF IInv, LastOfFamily, Closed, Accounted, Issuing, Holding, Stored, Live, Answer,
     Idle, Create
<1> QED
  BY <1>1, <1>2, <1>3, <1>4, <1>5 DEF IInv

\* A logout reads the row of its token.
LEMMA LogoutFindKeeps ==
  ASSUME IInv, NEW r \in Requests, NEW t \in Tokens, LogoutFind(r, t), TypeOK'
  PROVE  IInv'
<1>1. Accounted'
  BY NoneAssumption DEF IInv, Accounted, Stored, Presentable, RequestsOK, TypeOK, LogoutFind
<1>2. ReadRowHolds'
  BY DEF IInv, ReadRowHolds, Stored, LogoutFind
<1>3. Exclusive'
  BY NoneAssumption DEF IInv, Exclusive, Holding, Stored, Live, RequestsOK, TypeOK,
     LogoutFind
<1>4. SpentOK'
  BY DEF IInv, SpentOK, Stored, Live, LogoutFind
<1>5. LastOfFamily'
  BY NoneAssumption DEF IInv, LastOfFamily, Closed, Holding, Stored, Live, RequestsOK,
     TypeOK, LogoutFind
<1> QED
  BY <1>1, <1>2, <1>3, <1>4, <1>5 DEF IInv

\* Revocation leaves no live token in the family; when one was there, nobody is
\* issuing in it and the family is over.
LEMMA RevokeFamilyKeeps ==
  ASSUME IInv, NEW r \in Requests, RevokeFamily(r), TypeOK'
  PROVE  IInv'
<1>1. Accounted'
  BY NoneAssumption DEF IInv, Accounted, Stored, Live, RevokeAllOf, LiveIn, Revoke, Answer,
     Idle, RequestsOK, TypeOK, RevokeFamily
<1>2. ReadRowHolds'
  BY DEF IInv, ReadRowHolds, Stored, Live, RevokeAllOf, LiveIn, Revoke, Answer, Idle,
     RequestsOK, TypeOK, RevokeFamily
<1>3. Exclusive'
  BY NoneAssumption DEF IInv, Exclusive, Holding, Stored, Live, RevokeAllOf, Revoke, Answer,
     Idle, RequestsOK, TypeOK, RevokeFamily
<1>4. SpentOK'
  BY DEF IInv, SpentOK, Stored, Live, RevokeAllOf, LiveIn, TypeOK, RevokeFamily
<1>5. LastOfFamily'
  BY NoneAssumption DEF IInv, LastOfFamily, Closed, ReadRowHolds, Exclusive, Holding,
     Stored, Live, RevokeAllOf, LiveIn, Revoke, Answer, Idle, RequestsOK, TypeOK,
     RevokeFamily
<1> QED
  BY <1>1, <1>2, <1>3, <1>4, <1>5 DEF IInv

\* A request that dies gives back whatever it held.
LEMMA FailKeeps ==
  ASSUME IInv, NEW r \in Requests, Fail(r), TypeOK'
  PROVE  IInv'
<1>1. Accounted'
  BY NoneAssumption DEF IInv, Accounted, Stored, Answer, Idle, RequestsOK, TypeOK, Fail
<1>2. ReadRowHolds'
  BY DEF IInv, ReadRowHolds, Stored, Answer, Idle, Fail
<1>3. Exclusive'
  BY NoneAssumption DEF IInv, Exclusive, Holding, Stored, Live, Answer, Idle, RequestsOK,
     TypeOK, Fail
<1>4. SpentOK'
  BY DEF IInv, SpentOK, Stored, Live, Fail
<1>5. LastOfFamily'
  BY NoneAssumption DEF IInv, LastOfFamily, Closed, Holding, Stored, Live, Answer, Idle,
     RequestsOK, TypeOK, Fail
<1> QED
  BY <1>1, <1>2, <1>3, <1>4, <1>5 DEF IInv

\* Every step of the code keeps the invariant.
LEMMA InvariantStep == IInv /\ [Next]_vars => IInv'
<1> SUFFICES ASSUME IInv, [Next]_vars PROVE IInv'
  OBVIOUS
<1>1. TypeOK'
  BY TypeStep DEF IInv
<1>2. ASSUME NEW r \in Requests,
             \/ \E u \in Users : LoginFind(r, u)
             \/ \E f \in Families, t \in Tokens : Login(r, f, t)
             \/ \E t \in Tokens : RefreshFind(r, t) \/ LogoutFind(r, t) \/ UserAccepted(r, t)
      PROVE  IInv'
  BY <1>1, <1>2, LoginFindKeeps, LoginKeeps, RefreshFindKeeps, LogoutFindKeeps, UserAcceptedKeeps
<1>3. ASSUME NEW r \in Requests,
             \/ ClaimWon(r) \/ ClaimLost(r) \/ UserRefused(r) \/ Purge(r)
             \/ Create(r) \/ RevokeFamily(r) \/ Fail(r)
      PROVE  IInv'
  BY <1>1, <1>3, ClaimWonKeeps, ClaimLostKeeps, UserRefusedKeeps, PurgeKeeps, CreateKeeps,
     RevokeFamilyKeeps, FailKeeps
<1>4. ASSUME UNCHANGED <<exp, rows, req, started, spent>>, now' >= now
      PROVE  IInv'
  <2>1. Accounted' /\ ReadRowHolds' /\ Exclusive'
    BY <1>4 DEF IInv, Accounted, ReadRowHolds, Exclusive, Live, Stored
  <2>2. SpentOK'
    BY <1>1, <1>4 DEF IInv, TypeOK, SpentOK, Live, Stored
  <2>3. LastOfFamily'
    BY <1>4 DEF IInv, LastOfFamily, Closed, Live, Stored
  <2> QED
    BY <1>1, <2>1, <2>2, <2>3 DEF IInv
<1>5. CASE Tick
  BY <1>4, <1>5 DEF Tick, IInv, TypeOK
<1>6. ASSUME NEW u \in Users, SetActive(u)
      PROVE  IInv'
  BY <1>4, <1>6 DEF SetActive, IInv, TypeOK
<1>7. CASE UNCHANGED vars
  BY <1>4, <1>7 DEF vars, IInv, TypeOK
<1> QED
  BY <1>2, <1>3, <1>5, <1>6, <1>7 DEF Next, Continue

\* The invariant holds in every reachable state.
THEOREM Invariance == Spec => []IInv
<1>1. Init => IInv
  <2> SUFFICES ASSUME Init PROVE IInv
    OBVIOUS
  <2>1. TypeOK
    BY DEF Init, TypeOK, RequestsOK, Idle, RequestState, Issuing
  <2>2. (\A t \in Tokens : ~Stored(t)) /\ (\A r \in Requests : req[r].pc = "idle") /\ spent = {}
    BY DEF Init, Idle, Stored
  <2> QED
    BY <2>1, <2>2 DEF IInv, Accounted, ReadRowHolds, Exclusive, SpentOK, LastOfFamily,
       Live, Holding, Issuing
<1> QED
  BY <1>1, InvariantStep, PTL DEF Spec

-----------------------------------------------------------------------------
(* What follows from it *)

\* Rotation: a family has one live token or one issuer, whatever the number of
\* concurrent logins, refreshes and logouts, and wherever requests die.
THEOREM Rotation == Spec => []OneTokenPerFamily
<1>1. IInv => OneTokenPerFamily
  BY DEF IInv, Exclusive, OneTokenPerFamily, LiveIn, Holders
<1> QED
  BY <1>1, Invariance, PTL

\* Reuse detection has no gap: the row of an exchanged token outlives it.
THEOREM ReuseDetectable == Spec => []SpentStaysDetectable
<1>1. IInv => SpentStaysDetectable
  BY DEF IInv, SpentOK, SpentStaysDetectable
<1> QED
  BY <1>1, Invariance, PTL

\* Reuse detection has no false alarm: a failed claim means that the token was
\* exchanged before, or that its family is over already.
THEOREM NoFalseAlarm == Spec => []AlarmIsJustified
<1>1. IInv => AlarmIsJustified
  BY DEF IInv, LastOfFamily, Closed, AlarmIsJustified, Over, LiveIn, Holders
<1> QED
  BY <1>1, Invariance, PTL

\* Deactivation reaches the open sessions of a user once the requests that had
\* read the user as active are finished.
THEOREM DeactivationHolds == Spec => DeactivationStopsIssue
<1> DEFINE Quiet(u) == ~active[u] /\ ~active'[u] /\ Drained(u)
<1>1. ASSUME TypeOK, [Next]_vars, NEW u \in Users, Quiet(u)
      PROVE  Drained(u)'
  <2>1. ASSUME NEW r \in Requests, req'[r].pc \in {"login"} \union Issuing, req'[r].usr = u
        PROVE  FALSE
    <3>1. \A q \in Requests : req[q].pc \in {"login"} \union Issuing => req[q].usr # u
      BY <1>1 DEF Drained
    <3>2. req \in [Requests -> RequestState]
      BY <1>1 DEF TypeOK, RequestsOK
    <3>3. CASE req' = req
      BY <2>1, <3>1, <3>3
    <3>4. ASSUME NEW q \in Requests, NEW f \in Families, NEW t \in Tokens, Login(q, f, t)
          PROVE  FALSE
      BY <2>1, <3>1, <3>2, <3>4 DEF Login, Sign
    <3>5. ASSUME NEW q \in Requests, NEW t \in Tokens, UserAccepted(q, t)
          PROVE  FALSE
      BY <1>1, <2>1, <3>1, <3>2, <3>5 DEF UserAccepted, UserIsActive, Sign
    <3>6. ASSUME NEW q \in Requests, NEW t \in Tokens, RefreshFind(q, t) \/ LogoutFind(q, t)
          PROVE  FALSE
      BY <2>1, <3>1, <3>2, <3>6 DEF RefreshFind, LogoutFind, Issuing
    <3>7. ASSUME NEW q \in Requests, ClaimWon(q) \/ ClaimLost(q) \/ UserRefused(q)
          PROVE  FALSE
      <4>1. req'[q].pc \in {"user", "reuse", "refused"} /\ \A z \in Requests \ {q} : req'[z] = req[z]
        BY <3>2, <3>7 DEF ClaimWon, ClaimLost, UserRefused, RequestState
      <4> QED
        BY <2>1, <3>1, <4>1 DEF Issuing
    <3>8. ASSUME NEW q \in Requests, Purge(q)
          PROVE  FALSE
      <4>1. req'[q].usr = req[q].usr /\ \A z \in Requests \ {q} : req'[z] = req[z]
        BY <3>2, <3>8 DEF Purge, RequestState
      <4>2. req[q].pc \in Issuing
        BY <3>8 DEF Purge, Issuing
      <4> QED
        BY <2>1, <3>1, <4>1, <4>2
    <3>9. ASSUME NEW q \in Requests, Answer(q)
          PROVE  FALSE
      BY <2>1, <3>1, <3>2, <3>9 DEF Answer, Idle, Issuing
    <3>10. ASSUME NEW q \in Requests, NEW v \in Users, LoginFind(q, v)
           PROVE  FALSE
      <4>1. req'[q].usr = v /\ \A z \in Requests \ {q} : req'[z] = req[z]
        BY <3>2, <3>10 DEF LoginFind, Idle
      <4> QED
        BY <1>1, <2>1, <3>1, <3>10, <4>1 DEF LoginFind
    <3> QED
      BY <1>1, <3>3, <3>4, <3>5, <3>6, <3>7, <3>8, <3>9, <3>10 DEF Next, vars, Continue, Create,
         RevokeFamily, Fail, SetActive, Tick
  <2> QED
    BY <1>1, <2>1 DEF Drained
<1>2. ASSUME TypeOK, [Next]_vars, NEW u \in Users, Quiet(u)
      PROVE  LiveOf(u)' \subseteq LiveOf(u)
  <2> SUFFICES ASSUME NEW t \in Tokens, Live(t)', rows'[t].user = u
               PROVE  Live(t) /\ rows[t].user = u
    BY DEF LiveOf
  <2>1. CASE rows' = rows
    BY <2>1 DEF Live, Stored
  <2>2. ASSUME NEW r \in Requests, ClaimWon(r)
        PROVE  Live(t) /\ rows[t].user = u
    <3> DEFINE v == req[r].tok
    <3>1. v \in Tokens /\ Live(v) /\ rows' = [rows EXCEPT ![v] = Revoke(v)]
      BY <1>2, <2>2 DEF TypeOK, RequestsOK, ClaimWon, Claimable
    <3>2. Revoke(v).revoked = TRUE
      BY <1>2, <3>1, RowOf DEF Live, Row, Revoke
    <3> HIDE DEF v
    <3> QED
      BY <1>2, <3>1, <3>2 DEF Live, Stored, TypeOK
  <2>3. ASSUME NEW r \in Requests, Purge(r)
        PROVE  Live(t) /\ rows[t].user = u
    BY <2>3 DEF Purge, Live, Stored
  <2>4. ASSUME NEW r \in Requests, Create(r)
        PROVE  Live(t) /\ rows[t].user = u
    BY <1>2, <2>4 DEF Create, Drained, Issuing, Live, Stored, TypeOK
  <2>5. ASSUME NEW r \in Requests, RevokeFamily(r)
        PROVE  Live(t) /\ rows[t].user = u
    BY <2>5 DEF RevokeFamily, RevokeAllOf, LiveIn, Revoke, Live, Stored
  <2> QED
    BY <1>2, <2>1, <2>2, <2>3, <2>4, <2>5 DEF Next, vars, Continue, LoginFind, Login, RefreshFind,
       LogoutFind, ClaimLost, UserAccepted, UserRefused, Fail, SetActive, Tick
<1>3. TypeOK /\ [Next]_vars =>
        [\A u \in Users :
          ~active[u] /\ ~active'[u] /\ Drained(u) =>
            Drained(u)' /\ LiveOf(u)' \subseteq LiveOf(u)]_vars
  BY <1>1, <1>2
<1> QED
  BY <1>3, TypeCorrect, PTL DEF Spec, DeactivationStopsIssue

-----------------------------------------------------------------------------
(* The requests and their table implement SessionChain *)

\* The abstract variables that a state of RefreshTokens stands for.
Current   == [f \in Families |-> LiveIn(f)]
Replacing == {f \in Families : Holders(f) # {}}
Used      == {t \in Tokens : exp[t] # 0 /\ \A r \in Requests :
                req[r].pc \in Issuing => req[r].new # t}

\* A step that the chain does not see.
LEMMA Unseen ==
  ASSUME Current' = Current, Replacing' = Replacing, Used' = Used, started' = started
  PROVE  UNCHANGED Chain!vars
  BY DEF Chain!vars, Current, Replacing, Used

\* A step that ends the sessions F and throws the tokens T away.
LEMMA Ending ==
  ASSUME NEW F \in SUBSET Families, NEW T \in SUBSET Tokens,
         Current' = [f \in Families |-> IF f \in F THEN {} ELSE LiveIn(f)],
         Replacing' = Replacing \ F, Used' = Used \union T, started' = started
  PROVE  Chain!Next
<1>1. Chain!End(F, T)
  BY DEF Chain!End, Current, Replacing, Used
<1> QED
  BY <1>1 DEF Chain!Next

\* With one live token or one issuer per family, its live tokens are the one
\* that is known to be live, and an issuer's family has none.
LEMMA OneOfFamily ==
  ASSUME IInv, NEW f \in Families
  PROVE  /\ \A t \in Tokens : Live(t) /\ rows[t].family = f => LiveIn(f) = {t} /\ Holders(f) = {}
         /\ \A r \in Requests : req[r].pc \in Holding /\ req[r].fam = f =>
              LiveIn(f) = {} /\ Holders(f) = {r}
  BY DEF IInv, Exclusive, LiveIn, Holders

\* The rows that matter to the chain are unchanged.
LEMMA SameRows == ASSUME rows' = rows PROVE Current' = Current
  BY DEF Current, LiveIn, Live, Stored

\* The requests that issue are unchanged, up to what else they do.
LEMMA SameIssuers ==
  ASSUME IInv, NEW r \in Requests, exp' = exp,
         \A q \in Requests \ {r} : req'[q] = req[q],
         req[r].pc \notin Holding, req'[r].pc \notin Holding
  PROVE  Replacing' = Replacing /\ Used' = Used
  BY DEF Replacing, Holders, Used, Holding, Issuing

\* A login opens a session that was never used.
LEMMA LoginOpens ==
  ASSUME IInv, NEW r \in Requests, NEW f \in Families, NEW t \in Tokens, Login(r, f, t)
  PROVE  Chain!Next
<1>1. /\ req'[r] = [pc |-> "purge", tok |-> None, fam |-> f, usr |-> req[r].usr, new |-> t]
      /\ \A q \in Requests \ {r} : req'[q] = req[q]
      /\ req[r].pc = "login"
  BY DEF IInv, TypeOK, RequestsOK, Login, Sign
<1>2. Replacing' = Replacing \union {f}
  BY <1>1 DEF Replacing, Holders, Holding, Issuing
<1>3. Used' = Used
  BY <1>1 DEF IInv, TypeOK, Accounted, Used, Login, Sign, Issuing
<1>4. Current' = Current
  BY SameRows DEF Login
<1>5. Chain!Open(f)
  BY <1>2, <1>3, <1>4 DEF Chain!Open, Login, FreshFamily, Current, Replacing, Used
<1> QED
  BY <1>5 DEF Chain!Next

\* A claim that succeeds takes the current token out of its session.
LEMMA ClaimExchanges ==
  ASSUME IInv, NEW r \in Requests, ClaimWon(r)
  PROVE  Chain!Next
<1> DEFINE v == req[r].tok
           g == req[r].fam
<1>1. v \in Tokens /\ Live(v) /\ g \in Families /\ rows[v].family = g
  BY DEF IInv, TypeOK, RequestsOK, ReadRowHolds, ClaimWon, Claimable, Live
<1>2. Revoke(v).revoked = TRUE
  BY <1>1, RowOf DEF IInv, Live, Row, Revoke
<1>3. rows' = [rows EXCEPT ![v] = Revoke(v)]
  BY DEF ClaimWon
<1>4. LiveIn(g) = {v} /\ Holders(g) = {}
  BY <1>1, OneOfFamily
<1>5. \A t \in Tokens : Live(t)' <=> Live(t) /\ t # v
  BY <1>1, <1>2, <1>3 DEF IInv, TypeOK, Live, Stored
<1>6. Current' = [f \in Families |-> IF f = g THEN {} ELSE LiveIn(f)]
  BY <1>1, <1>3, <1>4, <1>5 DEF IInv, TypeOK, Current, LiveIn
<1>7. req'[r].pc = "user" /\ req'[r].fam = g /\ \A q \in Requests \ {r} : req'[q] = req[q]
  BY DEF IInv, TypeOK, RequestsOK, RequestState, ClaimWon
<1>8. Replacing' = Replacing \union {g}
  BY <1>1, <1>7 DEF Replacing, Holders, Holding, ClaimWon, Issuing
<1>9. Used' = Used
  BY <1>7 DEF Used, ClaimWon, Issuing
<1>10. Chain!Exchange(g)
  BY <1>1, <1>4, <1>6, <1>8, <1>9 DEF Chain!Exchange, ClaimWon, Current, Replacing, Used
<1> QED
  BY <1>1, <1>10 DEF Chain!Next

\* Accepting the user and signing is not seen: the token is not current yet.
LEMMA AcceptanceUnseen ==
  ASSUME IInv, NEW r \in Requests, NEW t \in Tokens, UserAccepted(r, t)
  PROVE  UNCHANGED Chain!vars
<1>1. /\ req'[r] = [pc |-> "purge", tok |-> req[r].tok, fam |-> req[r].fam,
                    usr |-> req[r].usr, new |-> t]
      /\ \A q \in Requests \ {r} : req'[q] = req[q]
      /\ req[r].pc = "user"
  BY DEF IInv, TypeOK, RequestsOK, UserAccepted, Sign
<1>2. Replacing' = Replacing
  BY <1>1 DEF Replacing, Holders, Holding, Issuing
<1>3. Used' = Used
  BY <1>1 DEF IInv, TypeOK, Accounted, Used, UserAccepted, Sign, Issuing
<1> QED
  BY <1>2, <1>3, SameRows, Unseen DEF UserAccepted

\* Deleting expired rows ends the sessions whose current token was among them,
\* and none of them is being replaced.
LEMMA PurgeEnds ==
  ASSUME IInv, NEW r \in Requests, Purge(r)
  PROVE  Chain!Next
<1> DEFINE F == {f \in Families : LiveIn(f) # {} /\ LiveIn(f)' = {}}
<1>1. \A t \in Tokens : rows'[t] = rows[t] \/ rows'[t] = None
  BY DEF Purge
<1>2. \A f \in Families : LiveIn(f)' \subseteq LiveIn(f)
  BY <1>1 DEF LiveIn, Live, Stored
<1>3. \A f \in Families : LiveIn(f)' = IF f \in F THEN {} ELSE LiveIn(f)
  BY <1>2, OneOfFamily DEF LiveIn
<1>4. Current' = [f \in Families |-> IF f \in F THEN {} ELSE LiveIn(f)]
  BY <1>3 DEF Current
<1>5. /\ req'[r].pc = "create" /\ req'[r].fam = req[r].fam /\ req'[r].new = req[r].new
      /\ req[r].pc = "purge" /\ \A q \in Requests \ {r} : req'[q] = req[q]
  BY DEF IInv, TypeOK, RequestsOK, RequestState, Purge
<1>6. \A f \in Families : Holders(f)' = Holders(f)
  BY <1>5 DEF Holders, Holding, Issuing
<1>7. Replacing' = Replacing \ F
  BY <1>6, OneOfFamily DEF Replacing, LiveIn, Holders
<1>8. Used' = Used \union {}
  BY <1>5 DEF Used, Purge, Issuing
<1> HIDE DEF F
<1> QED
  BY <1>4, <1>7, <1>8, Ending DEF Purge, F

\* Storing the signed token makes it the current one.
LEMMA CreateIssues ==
  ASSUME IInv, NEW r \in Requests, Create(r)
  PROVE  Chain!Next
<1>0. PICK g \in Families, t \in Tokens : g = req[r].fam /\ t = req[r].new
  BY DEF IInv, TypeOK, RequestsOK, Create, Issuing
<1>1. /\ g = req[r].fam /\ t = req[r].new
      /\ ~Stored(t) /\ exp[t] # 0 /\ req[r].pc = "create"
  BY <1>0 DEF IInv, Accounted, Create, Issuing
<1>2. rows'[t] # None /\ rows'[t].family = g /\ ~rows'[t].revoked
  <2> DEFINE w == [user |-> req[r].usr, family |-> g, expiresAt |-> exp[t], revoked |-> FALSE]
  <2>1. rows'[t] = w
    BY <1>1 DEF IInv, TypeOK, Create
  <2>2. w \in Row
    BY <1>1 DEF IInv, TypeOK, RequestsOK, Row
  <2>3. w.family = g /\ w.revoked = FALSE
    OBVIOUS
  <2> HIDE DEF w
  <2> QED
    BY <2>1, <2>2, <2>3, NoneAssumption
<1>3. \A v \in Tokens \ {t} : rows'[v] = rows[v]
  BY <1>1 DEF Create, IInv, TypeOK
<1>4. LiveIn(g) = {} /\ Holders(g) = {r}
  BY <1>1, OneOfFamily DEF Holding, Issuing
<1>5. Current' = [Current EXCEPT ![g] = {t}]
  <2>1. \A v \in Tokens : Live(v)' <=> Live(v) \/ v = t
    BY <1>1, <1>2, <1>3 DEF Live, Stored
  <2>2. \A f \in Families : LiveIn(f)' = IF f = g THEN {t} ELSE LiveIn(f)
    <3>1. \A v \in Tokens, f \in Families :
            v \in LiveIn(f)' <=> v \in IF f = g THEN {t} ELSE LiveIn(f)
      BY <1>1, <1>2, <1>3, <1>4, <2>1 DEF LiveIn, Live
    <3> QED
      BY <1>1, <3>1 DEF LiveIn
  <2> QED
    BY <1>1, <2>2 DEF Current
<1>6. req'[r].pc = "idle" /\ \A q \in Requests \ {r} : req'[q] = req[q]
  BY DEF IInv, TypeOK, RequestsOK, Create, Answer, Idle
<1>7. Replacing' = Replacing \ {g} /\ g \in Replacing
  BY <1>1, <1>4, <1>6 DEF Replacing, Holders, Holding, Issuing
<1>8. Used' = Used \union {t} /\ t \notin Used
  BY <1>1, <1>6 DEF IInv, Accounted, Used, Create, Issuing
<1>9. Chain!Issue(g, t)
  BY <1>5, <1>7, <1>8 DEF Chain!Issue, Create, Current, Replacing, Used
<1> QED
  BY <1>9 DEF Chain!Next

\* Revoking a family ends its session if it has a current token; a session that
\* is being replaced is left alone, which is what the code does.
LEMMA RevocationEnds ==
  ASSUME IInv, NEW r \in Requests, RevokeFamily(r)
  PROVE  Chain!Next
<1> DEFINE g == req[r].fam
           F == {f \in {g} : LiveIn(f) # {}}
<1>1. g \in Families /\ req[r].pc \notin Holding
  BY DEF IInv, TypeOK, RequestsOK, RevokeFamily, Revoking, Holding, Issuing
<1>2. \A t \in Tokens : Live(t)' <=> Live(t) /\ rows[t].family # g
  <2>1. \A t \in LiveIn(g) : Revoke(t).revoked = TRUE
    BY RowOf DEF IInv, LiveIn, Live, Revoke, Row
  <2> QED
    BY <2>1 DEF RevokeFamily, RevokeAllOf, LiveIn, Live, Stored
<1>3. \A t \in Tokens : Live(t)' => rows'[t].family = rows[t].family
  BY <1>2 DEF RevokeFamily, RevokeAllOf, LiveIn
<1>4. Current' = [f \in Families |-> IF f \in F THEN {} ELSE LiveIn(f)]
  BY <1>1, <1>2, <1>3 DEF Current, LiveIn
<1>5. req'[r].pc = "idle" /\ \A q \in Requests \ {r} : req'[q] = req[q]
  BY DEF IInv, TypeOK, RequestsOK, RevokeFamily, Answer, Idle
<1>6. Replacing' = Replacing /\ Used' = Used
  BY <1>1, <1>5, SameIssuers DEF RevokeFamily, Holding, Issuing
<1>7. Replacing' = Replacing \ F
  BY <1>1, <1>6, OneOfFamily DEF Replacing, LiveIn, Holders
<1>8. F \in SUBSET Families
  BY <1>1
<1> HIDE DEF F
<1> QED
  BY <1>4, <1>6, <1>7, <1>8, Ending DEF RevokeFamily

\* A request that gives up its right to issue, because its user is refused or
\* because it dies, ends its session.
LEMMA GivingUpEnds ==
  ASSUME IInv, NEW r \in Requests, req[r].pc \in Holding, req'[r].pc \notin Holding,
         \A q \in Requests \ {r} : req'[q] = req[q],
         UNCHANGED <<exp, rows, started>>
  PROVE  Chain!Next
<1> DEFINE g == req[r].fam
           T == {t \in Tokens : req[r].pc \in Issuing /\ t = req[r].new}
<1>1. g \in Families
  BY DEF IInv, TypeOK, RequestsOK, Holding, Issuing
<1>2. LiveIn(g) = {} /\ Holders(g) = {r}
  BY <1>1, OneOfFamily
<1>3. Current' = [f \in Families |-> IF f \in {g} THEN {} ELSE LiveIn(f)]
  BY <1>2, SameRows DEF Current
<1>4. Replacing' = Replacing \ {g}
  BY <1>1, <1>2 DEF Replacing, Holders
<1>5. Used' = Used \union T
  BY DEF IInv, Accounted, Used, Holding, Issuing
<1> HIDE DEF T
<1> QED
  BY <1>1, <1>3, <1>4, <1>5, Ending DEF T

\* Every step of a request, of the clock and of an administrator is a step of
\* the chain or leaves the chain alone.
LEMMA ChainStep == IInv /\ [Next]_vars => [Chain!Next]_Chain!vars
<1> SUFFICES ASSUME IInv, [Next]_vars PROVE Chain!Next \/ UNCHANGED Chain!vars
  OBVIOUS
<1>1. CASE UNCHANGED <<exp, rows, req, started>>
  BY <1>1, SameRows, Unseen DEF Replacing, Used, Holders
<1>2. ASSUME NEW r \in Requests, NEW t \in Tokens, RefreshFind(r, t) \/ LogoutFind(r, t)
      PROVE  UNCHANGED Chain!vars
  <2>1. /\ req[r].pc = "idle" /\ req'[r].pc \in {"claim", "logout"}
        /\ \A q \in Requests \ {r} : req'[q] = req[q]
    BY <1>2 DEF IInv, TypeOK, RequestsOK, RefreshFind, LogoutFind
  <2> QED
    BY <1>2, <2>1, SameIssuers, SameRows, Unseen DEF RefreshFind, LogoutFind, Holding, Issuing
<1>3. ASSUME NEW r \in Requests, ClaimLost(r)
      PROVE  UNCHANGED Chain!vars
  <2>1. /\ req[r].pc = "claim" /\ req'[r].pc = "reuse"
        /\ \A q \in Requests \ {r} : req'[q] = req[q]
    BY <1>3 DEF IInv, TypeOK, RequestsOK, RequestState, ClaimLost
  <2> QED
    BY <1>3, <2>1, SameIssuers, SameRows, Unseen DEF ClaimLost, Holding, Issuing
<1>4. ASSUME NEW r \in Requests, UserRefused(r)
      PROVE  Chain!Next
  <2>1. /\ req[r].pc = "user" /\ req'[r].pc = "refused"
        /\ \A q \in Requests \ {r} : req'[q] = req[q]
    BY <1>4 DEF IInv, TypeOK, RequestsOK, RequestState, UserRefused
  <2> QED
    BY <1>4, <2>1, GivingUpEnds DEF UserRefused, Holding, Issuing
<1>5. ASSUME NEW r \in Requests, Fail(r)
      PROVE  Chain!Next \/ UNCHANGED Chain!vars
  <2>1. req'[r].pc = "idle" /\ \A q \in Requests \ {r} : req'[q] = req[q]
    BY <1>5 DEF IInv, TypeOK, RequestsOK, Fail, Answer, Idle
  <2>2. CASE req[r].pc \in Holding
    BY <1>5, <2>1, <2>2, GivingUpEnds DEF Fail, Holding, Issuing
  <2>3. CASE req[r].pc \notin Holding
    BY <1>5, <2>1, <2>3, SameIssuers, SameRows, Unseen DEF Fail, Holding, Issuing
  <2> QED
    BY <2>2, <2>3
<1>6. ASSUME NEW r \in Requests, NEW u \in Users, LoginFind(r, u)
      PROVE  UNCHANGED Chain!vars
  <2>1. /\ req[r].pc = "idle" /\ req'[r].pc = "login"
        /\ \A q \in Requests \ {r} : req'[q] = req[q]
    BY <1>6 DEF IInv, TypeOK, RequestsOK, LoginFind, Idle
  <2> QED
    BY <1>6, <2>1, SameIssuers, SameRows, Unseen DEF LoginFind, Holding, Issuing
<1> QED
  BY <1>1, <1>2, <1>3, <1>4, <1>5, <1>6, LoginOpens, ClaimExchanges, AcceptanceUnseen, PurgeEnds,
     CreateIssues, RevocationEnds DEF Next, Continue, SetActive, Tick, vars

\* RefreshTokenService keeps the promise of the session chain: one current
\* token per session, exchanged at most once, and never a token again once the
\* session has ended.
THEOREM Refinement == Spec => ImplementsChain
<1>1. Init => Chain!Init
  BY NoneAssumption DEF Init, Chain!Init, LiveIn, Live, Stored, Holders, Idle, Holding, Issuing
<1> QED
  BY <1>1, Invariance, ChainStep, PTL DEF Spec, ImplementsChain, Chain!Spec

=============================================================================
