------------------------ MODULE RequestPipelineProofs ------------------------
(***************************************************************************)
(* Proofs about RequestPipeline for any number of users, tokens and        *)
(* requests and any token lifetime.                                        *)
(***************************************************************************)
EXTENDS RequestPipeline, TLAPS

\* A place for a token is empty or holds a token of a user.
Issued(x) == x = NoToken \/ x.user \in Users

\* An empty place has the shape of a place.
LEMMA NoTokenIsSlot == NoToken \in Slots
  BY LifetimeAssumption DEF NoToken, Slots

\* Every action keeps the shape of the state.
LEMMA TypeStep == TypeOK /\ [Next]_vars => TypeOK'
<1> SUFFICES ASSUME TypeOK, [Next]_vars PROVE TypeOK'
  OBVIOUS
<1> USE LifetimeAssumption, NoTokenIsSlot
<1>1. CASE UNCHANGED vars
  BY <1>1 DEF TypeOK, vars
<1>2. ASSUME NEW r \in Issuers, Fail(r) PROVE TypeOK'
  BY <1>2 DEF TypeOK, Fail
<1>3. ASSUME NEW r \in Issuers, NEW u \in Users, ReadUser(r, u) PROVE TypeOK'
  <2>1. [user |-> u, manage |-> Claim(u), left |-> SignedFor] \in Slots
    BY DEF TypeOK, Claim, SignedFor, Slots
  <2> QED
    BY <1>3, <2>1 DEF TypeOK, ReadUser, SignedFor
<1>4. ASSUME NEW r \in Issuers, NEW t \in Tokens, Sign(r, t) PROVE TypeOK'
  BY <1>4 DEF TypeOK, Sign
<1>6. ASSUME NEW u \in Users, NEW a \in BOOLEAN, NEW m \in BOOLEAN, UpdateUser(u, a, m) PROVE TypeOK'
  BY <1>6 DEF TypeOK, UpdateUser
<1>7. CASE Tick
  <2>1. \A t \in Tokens : token'[t] \in Slots /\ (token'[t].user \in Users \/ token'[t] = NoToken)
    <3> SUFFICES ASSUME NEW t \in Tokens, ~(token[t].left <= 1)
                 PROVE  token'[t] \in Slots /\ (token'[t].user \in Users \/ token'[t] = NoToken)
      BY <1>7 DEF Tick
    <3>1. token[t] \in Slots /\ (token[t].user \in Users \/ token[t] = NoToken)
      BY DEF TypeOK
    <3>2. token'[t] = [token[t] EXCEPT !.left = @ - 1]
      BY <1>7 DEF Tick
    <3>3. token[t].user \in Users
      BY <3>1 DEF NoToken
    <3> QED
      BY <3>1, <3>2, <3>3 DEF Slots
  <2>2. token' \in [Tokens -> Slots]
    BY <1>7, <2>1 DEF Tick
  <2>3. stale' \in [Users -> 0 .. Lifetime + 1]
    BY <1>7 DEF Tick, TypeOK
  <2> QED
    BY <1>7, <2>1, <2>2, <2>3 DEF Tick, TypeOK
<1>8. ASSUME NEW q \in Queries, NEW o \in Outcomes, Handle(q, o) PROVE TypeOK'
  BY <1>8 DEF TypeOK, Handle, Answer
<1>9. ASSUME NEW q \in Queries, NEW n \in DOMAIN Stages, Refuse(q, n) PROVE TypeOK'
  BY <1>9 DEF TypeOK, Refuse, Answer
<1> QED
  BY <1>1, <1>2, <1>3, <1>4, <1>6, <1>7, <1>8, <1>9 DEF Next

-----------------------------------------------------------------------------
(* The inductive invariant. *)

\* While a user is entitled, or is being issued a token that says so, nothing
\* is stale; ...
NothingStale ==
  /\ \A u \in Users : Entitled(u) => stale[u] = 0
  /\ \A r \in Issuers : issuing[r].manage => stale[issuing[r].user] = 0

\* ... and a token that says so has no more time left than staleness allows.
StaleTokenRunsOut ==
  \A t \in Tokens : token[t].manage => stale[token[t].user] + token[t].left <= Lifetime

\* The answer of this step was given by the present tokens: by the handler of
\* a request nothing refused, or by the first stage that refused it.
AnswerFollows ==
  \/ answer = NoAnswer
  \/ answer.outcome \in Outcomes /\ answer.query \in Queries /\ Handled(answer.query) /\ answer.hasId
  \/ /\ answer.outcome = "refused" /\ answer.query \in Queries
     /\ \E n \in DOMAIN Stages : /\ RefusedBy(answer.query, n)
                                 /\ \A k \in 1 .. n - 1 : ~RefusedBy(answer.query, k)
                                 /\ answer.status = RefusalStatus(answer.query, n)
                                 /\ (\E k \in 1 .. n - 1 : Stages[k] = "requestId") => answer.hasId

IInv == TypeOK /\ NothingStale /\ StaleTokenRunsOut /\ AnswerFollows

\* A token that says its bearer may manage users belongs to a user.
LEMMA Owner ==
  ASSUME TypeOK
  PROVE  /\ \A t \in Tokens : token[t].manage => token[t].user \in Users
         /\ \A r \in Issuers : issuing[r].manage => issuing[r].user \in Users /\ issuing[r].left = Lifetime
  BY DEF TypeOK, NoToken

\* Reading, signing, editing and ticking keep staleness and tokens in balance.
LEMMA StaleStep == IInv /\ [Next]_vars => NothingStale' /\ StaleTokenRunsOut'
<1> SUFFICES ASSUME IInv, [Next]_vars PROVE NothingStale' /\ StaleTokenRunsOut'
  OBVIOUS
<1>0. TypeOK /\ NothingStale /\ StaleTokenRunsOut
  BY DEF IInv
<1> USE LifetimeAssumption
<1>1. CASE UNCHANGED <<active, manage, token, issuing, stale>>
  BY <1>0, <1>1 DEF NothingStale, StaleTokenRunsOut, Entitled
<1>2. ASSUME NEW r \in Issuers, Fail(r) PROVE NothingStale' /\ StaleTokenRunsOut'
  BY <1>0, <1>2 DEF Fail, TypeOK, NothingStale, StaleTokenRunsOut, Entitled, NoToken
<1>3. ASSUME NEW r \in Issuers, NEW u \in Users, ReadUser(r, u) PROVE NothingStale' /\ StaleTokenRunsOut'
  <2>1. manage[u] => stale[u] = 0
    BY <1>0, <1>3 DEF ReadUser, NothingStale, Entitled
  <2>2. \A s \in Issuers : issuing'[s] = IF s = r THEN [user |-> u, manage |-> manage[u], left |-> Lifetime]
                                                  ELSE issuing[s]
    BY <1>0, <1>3 DEF ReadUser, TypeOK, Claim, SignedFor
  <2>3. \A s \in Issuers : issuing'[s].manage => stale[issuing'[s].user] = 0
    BY <1>0, <2>1, <2>2 DEF NothingStale
  <2> QED
    BY <1>0, <1>3, <2>3 DEF ReadUser, NothingStale, StaleTokenRunsOut, Entitled
<1>4. ASSUME NEW r \in Issuers, NEW t \in Tokens, Sign(r, t) PROVE NothingStale' /\ StaleTokenRunsOut'
  <2>1. issuing[r].manage => stale[issuing[r].user] = 0 /\ issuing[r].left = Lifetime
    BY <1>0, Owner DEF NothingStale
  <2>2. /\ \A s \in Tokens : token'[s] = IF s = t THEN issuing[r] ELSE token[s]
        /\ \A s \in Issuers : issuing'[s] = IF s = r THEN NoToken ELSE issuing[s]
        /\ stale' = stale /\ active' = active /\ manage' = manage
    BY <1>0, <1>4 DEF Sign, TypeOK
  <2>3. NothingStale'
    BY <1>0, <2>2 DEF NothingStale, Entitled, NoToken
  <2>4. StaleTokenRunsOut'
    BY <1>0, <2>1, <2>2 DEF StaleTokenRunsOut
  <2> QED
    BY <2>3, <2>4
<1>5. ASSUME NEW u \in Users, NEW a \in BOOLEAN, NEW m \in BOOLEAN, UpdateUser(u, a, m)
      PROVE  NothingStale' /\ StaleTokenRunsOut'
  <2>1. /\ \A v \in Users : stale'[v] = stale[v] \/ stale'[v] = 0
        /\ token' = token /\ issuing' = issuing
    BY <1>0, <1>5 DEF UpdateUser, TypeOK
  <2>2. \A v \in Users : Entitled(v)' => stale'[v] = 0
    BY <1>0, <1>5 DEF UpdateUser, TypeOK, Entitled, NothingStale
  <2>3. \A r \in Issuers : issuing'[r].manage => stale'[issuing'[r].user] = 0
    BY <1>0, <2>1, Owner DEF NothingStale
  <2>4. StaleTokenRunsOut'
    <3> SUFFICES ASSUME NEW t \in Tokens, token[t].manage
                 PROVE  stale'[token[t].user] + token[t].left <= Lifetime
      BY <2>1 DEF StaleTokenRunsOut
    <3>1. token[t].user \in Users /\ token[t].left \in 0 .. Lifetime
      BY <1>0, Owner DEF TypeOK, Slots
    <3>2. stale[token[t].user] + token[t].left <= Lifetime
      BY <1>0 DEF StaleTokenRunsOut
    <3> QED
      BY <2>1, <3>1, <3>2
  <2> QED
    BY <2>2, <2>3, <2>4 DEF NothingStale
<1>6. CASE Tick
  <2>1. active' = active /\ manage' = manage /\ issuing' = issuing
    BY <1>6 DEF Tick
  <2>2. \A u \in Users : Entitled(u) \/ BeingIssued(u) => stale'[u] = 0
    BY <1>6 DEF Tick
  <2>3. NothingStale'
    <3>1. \A u \in Users : Entitled(u)' => Entitled(u)
      BY <2>1 DEF Entitled
    <3>2. \A r \in Issuers : issuing[r].manage => BeingIssued(issuing[r].user)
      BY DEF BeingIssued
    <3> QED
      BY <1>0, <2>1, <2>2, <3>1, <3>2, Owner DEF NothingStale
  <2>4. StaleTokenRunsOut'
    <3> SUFFICES ASSUME NEW t \in Tokens, token'[t].manage
                 PROVE  stale'[token'[t].user] + token'[t].left <= Lifetime
      BY DEF StaleTokenRunsOut
    <3>1. ~(token[t].left <= 1) /\ token'[t] = [token[t] EXCEPT !.left = @ - 1]
      BY <1>6 DEF Tick, NoToken
    <3>2. token[t] \in Slots
      BY <1>0 DEF TypeOK
    <3>3. /\ token'[t].user = token[t].user /\ token'[t].left = token[t].left - 1
          /\ token'[t].manage = token[t].manage
      BY <3>1, <3>2 DEF Slots
    <3>4. token[t].user \in Users /\ stale[token[t].user] + token[t].left <= Lifetime
      BY <1>0, <3>3, Owner DEF StaleTokenRunsOut
    <3>5. stale[token[t].user] \in 0 .. Lifetime + 1 /\ token[t].left \in 0 .. Lifetime
      BY <1>0, <3>2, <3>4 DEF TypeOK, Slots
    <3>6. stale'[token[t].user] \in {0, stale[token[t].user], stale[token[t].user] + 1}
      BY <1>6, <3>4 DEF Tick
    <3> QED
      BY <3>1, <3>3, <3>4, <3>5, <3>6
  <2> QED
    BY <2>3, <2>4
<1>7. CASE UNCHANGED vars
  BY <1>1, <1>7 DEF vars
<1>9. ASSUME NEW q \in Queries, NEW o \in Outcomes, Handle(q, o) PROVE NothingStale' /\ StaleTokenRunsOut'
  BY <1>1, <1>9 DEF Handle, Answer
<1>10. ASSUME NEW q \in Queries, NEW n \in DOMAIN Stages, Refuse(q, n) PROVE NothingStale' /\ StaleTokenRunsOut'
  BY <1>1, <1>10 DEF Refuse, Answer
<1> QED
  BY <1>2, <1>3, <1>4, <1>5, <1>6, <1>7, <1>9, <1>10 DEF Next

\* A step answers by its guards, or has no answer.
LEMMA AnswerStep == IInv /\ [Next]_vars => AnswerFollows'
<1> SUFFICES ASSUME IInv, [Next]_vars PROVE AnswerFollows'
  OBVIOUS
<1>1. ASSUME answer' = NoAnswer PROVE AnswerFollows'
  BY <1>1 DEF AnswerFollows
<1>2. ASSUME token' = token, NEW q, NEW n
      PROVE  (RefusedBy(q, n) <=> RefusedBy(q, n)') /\ (Verifies(q.token) <=> Verifies(q.token)')
  BY <1>2 DEF RefusedBy, HasUser, Verifies
<1>3. ASSUME NEW q \in Queries, NEW o \in Outcomes, Handle(q, o) PROVE AnswerFollows'
  <2>1. token' = token /\ answer'.query = q /\ answer'.outcome = o /\ Handled(q) /\ answer'.hasId
    BY <1>3 DEF Handle, Answer
  <2>2. \A n \in DOMAIN Stages : ~RefusedBy(q, n)'
    BY <2>1, <1>2 DEF Handled
  <2> QED
    BY <2>1, <2>2 DEF AnswerFollows, Handled
<1>4. ASSUME NEW q \in Queries, NEW n \in DOMAIN Stages, Refuse(q, n) PROVE AnswerFollows'
  <2>1. /\ token' = token /\ answer'.query = q /\ answer'.outcome = "refused"
        /\ answer'.status = RefusalStatus(q, n)
        /\ (\E k \in 1 .. n - 1 : Stages[k] = "requestId") => answer'.hasId
        /\ RefusedBy(q, n) /\ \A k \in 1 .. n - 1 : ~RefusedBy(q, k)
    BY <1>4 DEF Refuse, Answer
  <2>2. RefusedBy(q, n)' /\ \A k \in 1 .. n - 1 : ~RefusedBy(q, k)'
    BY <2>1, <1>2
  <2> QED
    BY <2>1, <2>2 DEF AnswerFollows, RefusalStatus
<1>5. CASE UNCHANGED vars
  <2>1. token' = token /\ answer' = answer
    BY <1>5 DEF vars
  <2>2. \A n : RefusedBy(answer.query, n) <=> RefusedBy(answer.query, n)'
    BY <2>1 DEF RefusedBy, HasUser, Verifies
  <2> QED
    BY <2>1, <2>2 DEF IInv, AnswerFollows, Handled, RefusalStatus
<1> QED
  BY <1>1, <1>3, <1>4, <1>5 DEF Next, Fail, ReadUser, Sign, UpdateUser, Tick

\* The inductive invariant holds.
LEMMA Invariance == Spec => []IInv
<1>1. Init => IInv
  <2> SUFFICES ASSUME Init PROVE IInv
    OBVIOUS
  <2>1. TypeOK
    BY NoTokenIsSlot, LifetimeAssumption DEF Init, TypeOK
  <2>2. NothingStale /\ StaleTokenRunsOut /\ AnswerFollows
    BY DEF Init, NothingStale, StaleTokenRunsOut, AnswerFollows, NoToken
  <2> QED
    BY <2>1, <2>2 DEF IInv
<1>2. IInv /\ [Next]_vars => IInv'
  BY TypeStep, StaleStep, AnswerStep DEF IInv
<1> QED
  BY <1>1, <1>2, PTL DEF Spec

-----------------------------------------------------------------------------
(* What follows from it for the answers. *)

\* A request that reaches the handler of a protected route showed a token that
\* verifies, for the tenant of its header, and with the claim the route asks for.
LEMMA Passed ==
  ASSUME NEW q, Handled(q), ~Public(q)
  PROVE  /\ Verifies(q.token)
         /\ q.header = "own"
         /\ Restricted(q) => token[q.token].manage
<1>1. DOMAIN Stages = 1 .. 7
  BY DEF Stages
<1>2. Stages[4] = "JwtAuthGuard" /\ Stages[5] = "TenantGuard" /\ Stages[6] = "PermissionsGuard"
  BY DEF Stages
<1>3. Verifies(q.token)
  BY <1>1, <1>2 DEF Handled, RefusedBy
<1>4. HasUser(q, 5) /\ HasUser(q, 6)
  BY <1>2, <1>3 DEF HasUser
<1> QED
  BY <1>1, <1>2, <1>3, <1>4 DEF Handled, RefusedBy

\* Type correctness.
THEOREM TypeCorrect == Spec => []TypeOK
<1>1. IInv => TypeOK
  BY DEF IInv
<1> QED
  BY <1>1, Invariance, PTL

\* The right to manage users ends with the tokens signed while it was held.
THEOREM StaleRightsEnd == Spec => []StaleRightEnds
<1>1. ASSUME IInv PROVE StaleRightEnds
  <2> SUFFICES ASSUME Admitted, Restricted(answer.query)
               PROVE  stale[token[answer.query.token].user] <= Lifetime
    BY DEF StaleRightEnds
  <2> DEFINE t == answer.query.token
  <2>1. Handled(answer.query) /\ ~Public(answer.query)
    BY <1>1 DEF IInv, AnswerFollows, Admitted, NoAnswer, Outcomes
  <2>2. token[t].manage /\ Verifies(t)
    BY <2>1, Passed
  <2>3. t \in Tokens
    <3>1. answer.query \in Queries
      BY <1>1 DEF IInv, AnswerFollows, Admitted, NoAnswer, Outcomes
    <3> QED
      BY <3>1, <2>2 DEF Verifies, Queries
  <2>4. token[t].user \in Users /\ stale[token[t].user] + token[t].left <= Lifetime
    BY <1>1, <2>2, <2>3, Owner DEF IInv, StaleTokenRunsOut
  <2>5. stale[token[t].user] \in Nat /\ token[t].left \in Nat
    BY <1>1, <2>3, <2>4, LifetimeAssumption DEF IInv, TypeOK, Slots
  <2> QED
    BY <2>4, <2>5, LifetimeAssumption
<1> QED
  BY <1>1, Invariance, PTL

\* No request works for another tenant than its token's.
THEOREM TenantsApart == Spec => []NoForeignTenant
<1>1. ASSUME IInv PROVE NoForeignTenant
  <2>1. Admitted => Handled(answer.query) /\ ~Public(answer.query)
    BY <1>1 DEF IInv, AnswerFollows, Admitted, NoAnswer, Outcomes
  <2> QED
    BY <2>1, Passed DEF NoForeignTenant
<1> QED
  BY <1>1, Invariance, PTL

\* The first stage to refuse a stranger on a protected route is JwtAuthGuard.
THEOREM StrangersGet401 == Spec => []StrangersLearnNothing
<1>1. ASSUME IInv PROVE StrangersLearnNothing
  <2> DEFINE q == answer.query
  <2> SUFFICES ASSUME answer # NoAnswer, q.wellFormed, q.route \in {"me", "users"}, ~Verifies(q.token)
               PROVE  answer.status = 401
    BY DEF StrangersLearnNothing
  <2>1. /\ Stages[1] = "body" /\ Stages[2] = "requestId" /\ Stages[3] = "router"
        /\ Stages[4] = "JwtAuthGuard" /\ DOMAIN Stages = 1 .. 7
    BY DEF Stages
  <2>2. q.route \in DOMAIN Routes /\ ~Public(q)
    BY DEF Routes, Public
  <2>3. RefusedBy(q, 4) /\ ~RefusedBy(q, 1) /\ ~RefusedBy(q, 2) /\ ~RefusedBy(q, 3)
    BY <2>1, <2>2 DEF RefusedBy
  <2>4. ~Handled(q)
    BY <2>1, <2>3 DEF Handled
  <2>5. PICK n \in 1 .. 7 : /\ RefusedBy(q, n)
                            /\ \A k \in 1 .. n - 1 : ~RefusedBy(q, k)
                            /\ answer.status = RefusalStatus(q, n)
    BY <1>1, <2>1, <2>4 DEF IInv, AnswerFollows
  <2>6. n = 4
    BY <2>3, <2>5
  <2> QED
    BY <2>1, <2>5, <2>6 DEF RefusalStatus
<1> QED
  BY <1>1, Invariance, PTL

\* Every stage but the body parser comes after RequestIdMiddleware.
THEOREM Traceable == Spec => []AnswersTraceable
<1>1. ASSUME IInv PROVE AnswersTraceable
  <2> SUFFICES ASSUME answer # NoAnswer, answer.query.wellFormed, answer.outcome = "refused"
               PROVE  answer.hasId
    BY <1>1 DEF AnswersTraceable, IInv, AnswerFollows
  <2>1. PICK n \in DOMAIN Stages :
              /\ RefusedBy(answer.query, n)
              /\ (\E k \in 1 .. n - 1 : Stages[k] = "requestId") => answer.hasId
    BY <1>1 DEF IInv, AnswerFollows, Outcomes
  <2>2. DOMAIN Stages = 1 .. 7 /\ Stages[1] = "body" /\ Stages[2] = "requestId"
    BY DEF Stages
  <2>3. n # 1 /\ n # 2
    BY <2>1, <2>2 DEF RefusedBy
  <2> QED
    BY <2>1, <2>2, <2>3
<1> QED
  BY <1>1, Invariance, PTL

=============================================================================
