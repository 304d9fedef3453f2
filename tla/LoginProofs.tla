----------------------------- MODULE LoginProofs -----------------------------
(***************************************************************************)
(* Proofs about LoginThrottle alone, and about Login: AuthService.login    *)
(* implements the specifications of the two services it drives, so what is *)
(* proved of each alone holds when they are put together; and the rate at  *)
(* which passwords can be guessed.  All for any number of requests,        *)
(* accounts and identities, any threshold and any length of the lockout.   *)
(***************************************************************************)
EXTENDS Login, FiniteSetTheorems, TLAPS

RP == INSTANCE RefreshTokensProofs WITH MayFail <- TRUE

-----------------------------------------------------------------------------
(* The throttle alone *)

\* A request that is answered, or moved to a place with an identity, keeps the
\* requests well formed.
LEMMA ThrottleGoto ==
  ASSUME TypeOK, NEW r \in Requests, NEW p \in Places,
         NEW k \in Keys \union {None}, Goto(r, p, k), p # "idle" => k \in Keys
  PROVE  /\ at' \in [Requests -> Places]
         /\ key' \in [Requests -> Keys \union {None}]
         /\ \A q \in Requests : at'[q] # "idle" => key'[q] \in Keys
  BY DEF TypeOK, Goto

\* The shape of the state survives every step.
LEMMA ThrottleTypeStep == TypeOK /\ [Next]_vars => TypeOK'
<1> SUFFICES ASSUME TypeOK, [Next]_vars PROVE TypeOK'
  OBVIOUS
<1> USE ConfigAssumption DEF Places
<1>1. CASE UNCHANGED vars
  BY <1>1 DEF TypeOK, vars
<1>2. ASSUME NEW r \in Requests, NEW k \in Keys, AssertNotLocked(r, k)
      PROVE  TypeOK'
  BY <1>2, ThrottleGoto DEF TypeOK, AssertNotLocked
<1>3. ASSUME NEW r \in Requests, RecordFailure(r) \/ RecordUnanswered(r)
      PROVE  TypeOK'
  <2>1. Increment(r) /\ key[r] \in Keys
    BY <1>3 DEF TypeOK, RecordFailure, RecordUnanswered, Increment
  <2>2. /\ at' \in [Requests -> Places]
        /\ key' \in [Requests -> Keys \union {None}]
        /\ \A q \in Requests : at'[q] # "idle" => key'[q] \in Keys
    BY <1>3, <2>1, ThrottleGoto DEF RecordFailure, RecordUnanswered, Answer
  <2>3. /\ count' \in [Keys -> Nat] /\ ttl' \in [Keys -> 0 .. LockoutSeconds]
        /\ failures' \in [Keys -> Nat]
    BY <2>1 DEF TypeOK, Increment, ExpireNX
  <2>4. \A k \in Keys : (count'[k] = 0 <=> ttl'[k] = 0) /\ failures'[k] <= count'[k]
    BY <2>1 DEF TypeOK, Increment, ExpireNX
  <2> QED
    BY <2>1, <2>2, <2>3, <2>4 DEF TypeOK, Increment
<1>4. ASSUME NEW r \in Requests, StartLockout(r) \/ StartUnanswered(r)
      PROVE  TypeOK'
  <2>1. Extend(r) /\ key[r] \in Keys
    BY <1>4 DEF TypeOK, StartLockout, StartUnanswered, Extend
  <2>2. ttl' \in [Keys -> 0 .. LockoutSeconds] /\ lock' \in [Keys -> 0 .. LockoutSeconds]
    BY <2>1 DEF TypeOK, Extend, LockoutTtl
  <2>3. \A k \in Keys : (count'[k] = 0 <=> ttl'[k] = 0) /\ failures'[k] <= count'[k]
    BY <2>1 DEF TypeOK, Extend, LockoutTtl
  <2>4. /\ at' \in [Requests -> Places]
        /\ key' \in [Requests -> Keys \union {None}]
        /\ \A q \in Requests : at'[q] # "idle" => key'[q] \in Keys
    BY <1>4, <2>1, ThrottleGoto DEF StartLockout, StartUnanswered, Answer
  <2> QED
    BY <2>1, <2>2, <2>3, <2>4 DEF TypeOK, Extend
<1>5. ASSUME NEW r \in Requests, Reset(r) \/ ResetUnanswered(r)
      PROVE  TypeOK'
  <2>1. Delete(r) /\ key[r] \in Keys
    BY <1>5 DEF TypeOK, Reset, ResetUnanswered, Delete
  <2>2. /\ at' \in [Requests -> Places]
        /\ key' \in [Requests -> Keys \union {None}]
        /\ \A q \in Requests : at'[q] # "idle" => key'[q] \in Keys
    BY <1>5, <2>1, ThrottleGoto DEF Reset, ResetUnanswered, Answer
  <2> QED
    BY <2>1, <2>2 DEF TypeOK, Delete
<1>6. ASSUME NEW r \in Requests, Fail(r)
      PROVE  TypeOK'
  BY <1>6, ThrottleGoto DEF TypeOK, Fail, Answer
<1>7. CASE Tick
  BY <1>7 DEF TypeOK, Tick, Minus1
<1>8. CASE RedisRestart
  BY <1>8 DEF TypeOK, RedisRestart
<1> QED
  BY <1>1, <1>2, <1>3, <1>4, <1>5, <1>6, <1>7, <1>8 DEF Next, Continue, Unanswered

\* Every counter has a deadline and no counter is without one, for every
\* configuration of the throttle.
THEOREM ThrottleTypeCorrect == Spec => []TypeOK
<1>1. Init => TypeOK
  BY ConfigAssumption DEF Init, TypeOK, Places
<1> QED
  BY <1>1, ThrottleTypeStep, PTL DEF Spec

\* A started lockout survives every step but its own end and a reset.
LEMMA LockoutStep == TypeOK /\ LockoutRunsFull /\ [Next]_vars => LockoutRunsFull'
<1> SUFFICES ASSUME TypeOK, LockoutRunsFull, [Next]_vars, NEW k \in Keys, lock'[k] > 0
             PROVE  Locked(k)' /\ ttl'[k] >= lock'[k]
  BY DEF LockoutRunsFull
<1> USE ConfigAssumption DEF TypeOK, LockoutRunsFull, Locked
<1>1. CASE UNCHANGED <<count, ttl, lock>>
  BY <1>1
<1>2. ASSUME NEW r \in Requests, Increment(r)
      PROVE  Locked(k)' /\ ttl'[k] >= lock'[k]
  BY <1>2 DEF Increment, ExpireNX
<1>3. ASSUME NEW r \in Requests, Extend(r)
      PROVE  Locked(k)' /\ ttl'[k] >= lock'[k]
  BY <1>3 DEF Extend, LockoutTtl
<1>4. ASSUME NEW r \in Requests, Delete(r)
      PROVE  Locked(k)' /\ ttl'[k] >= lock'[k]
  BY <1>4 DEF Delete
<1>5. CASE Tick
  BY <1>5 DEF Tick, Minus1
<1>6. CASE RedisRestart
  BY <1>6 DEF RedisRestart
<1> QED
  BY <1>1, <1>2, <1>3, <1>4, <1>5, <1>6 DEF Next, Continue, RecordFailure, StartLockout, Reset,
    Unanswered, RecordUnanswered, StartUnanswered, ResetUnanswered, AssertNotLocked, Fail, vars

\* A lockout that startLockout has put in place lasts its full length, however
\* many login requests for the same identity are in flight.
THEOREM LockoutIsFull == Spec => []LockoutRunsFull
<1>1. Init => LockoutRunsFull
  BY DEF Init, LockoutRunsFull
<1> QED
  BY <1>1, ThrottleTypeCorrect, LockoutStep, PTL DEF Spec

\* The requests pending on one identity are finitely many.
LEMMA PendingFinite ==
  ASSUME NEW k \in Keys
  PROVE  /\ IsFiniteSet(Pending(k)) /\ Cardinality(Pending(k)) \in Nat
         /\ Cardinality(Pending(k)) <= Cardinality(Requests)
         /\ Cardinality(Requests) \in Nat
  BY RequestsAssumption, FS_Subset, FS_CardinalityType DEF Pending

\* So they are after a step.
LEMMA PendingFiniteNext ==
  ASSUME NEW k \in Keys
  PROVE  /\ IsFiniteSet(Pending(k)') /\ Cardinality(Pending(k)') \in Nat
         /\ Cardinality(Pending(k)') <= Cardinality(Requests)
  BY RequestsAssumption, FS_Subset, FS_CardinalityType DEF Pending

\* Passing the check needs a counter below the threshold; counting a failure
\* takes a request out of those pending, and to count it again adds none;
\* nothing else raises the sum.
LEMMA BudgetStep == TypeOK /\ TypeOK' /\ FailuresBounded /\ [Next]_vars => FailuresBounded'
<1> SUFFICES ASSUME TypeOK, TypeOK', FailuresBounded, [Next]_vars, NEW k \in Keys
             PROVE  failures'[k] + Cardinality(Pending(k)') <= MaxAttempts - 1 + Cardinality(Requests)
  BY DEF FailuresBounded
<1> DEFINE B == MaxAttempts - 1 + Cardinality(Requests)
<1>0. /\ failures[k] + Cardinality(Pending(k)) <= B
      /\ failures[k] \in Nat /\ failures'[k] \in Nat
      /\ Cardinality(Pending(k)) \in Nat /\ Cardinality(Pending(k)') \in Nat
      /\ Cardinality(Pending(k)') <= Cardinality(Requests)
      /\ Cardinality(Requests) \in Nat
  BY PendingFinite, PendingFiniteNext DEF TypeOK, FailuresBounded
<1>1. ASSUME Pending(k)' \subseteq Pending(k), failures'[k] <= failures[k]
      PROVE  failures'[k] + Cardinality(Pending(k)') <= B
  <2>1. Cardinality(Pending(k)') <= Cardinality(Pending(k))
    BY <1>1, PendingFinite, FS_Subset
  <2> QED
    BY <1>0, <1>1, <2>1, ConfigAssumption
<1>2. ASSUME NEW r \in Requests, NEW j \in Keys, AssertNotLocked(r, j)
      PROVE  failures'[k] + Cardinality(Pending(k)') <= B
  <2>1. CASE j = k
    <3>1. failures'[k] <= MaxAttempts - 1
      BY <1>2, <2>1, ConfigAssumption DEF AssertNotLocked, Locked, TypeOK
    <3> QED
      BY <1>0, <3>1, ConfigAssumption
  <2>2. CASE j # k
    BY <1>1, <1>2, <2>2 DEF AssertNotLocked, Goto, Pending, TypeOK
  <2> QED
    BY <2>1, <2>2
<1>3. ASSUME NEW r \in Requests, RecordFailure(r) \/ RecordUnanswered(r)
      PROVE  failures'[k] + Cardinality(Pending(k)') <= B
  <2>1. Increment(r) /\ Pending(k)' = Pending(k) \ {r}
    BY <1>3 DEF RecordFailure, RecordUnanswered, Increment, Answer, Goto, Pending, TypeOK
  <2>2. CASE r \in Pending(k)
    <3>1. Cardinality(Pending(k)') = Cardinality(Pending(k)) - 1
      BY <2>1, <2>2, PendingFinite, FS_RemoveElement
    <3>2. failures'[k] = failures[k] + 1
      BY <2>1, <2>2 DEF Increment, Pending, TypeOK
    <3> QED
      BY <1>0, <3>1, <3>2, ConfigAssumption
  <2>3. CASE r \notin Pending(k)
    <3>1. failures'[k] = failures[k]
      BY <2>1, <2>3 DEF Increment, Pending, TypeOK
    <3> QED
      BY <1>0, <1>1, <2>1, <3>1
  <2> QED
    BY <2>2, <2>3
<1>4. ASSUME NEW r \in Requests, StartLockout(r) \/ StartUnanswered(r) \/ Fail(r)
      PROVE  failures'[k] + Cardinality(Pending(k)') <= B
  BY <1>0, <1>1, <1>4 DEF StartLockout, StartUnanswered, Extend, Fail, Answer, Goto, Pending, TypeOK
<1>8. ASSUME NEW r \in Requests, Reset(r) \/ ResetUnanswered(r)
      PROVE  failures'[k] + Cardinality(Pending(k)') <= B
  BY <1>0, <1>1, <1>8 DEF Reset, ResetUnanswered, Delete, Answer, Goto, Pending, TypeOK
<1>5. CASE Tick
  BY <1>0, <1>1, <1>5 DEF Tick, Pending, TypeOK
<1>6. CASE UNCHANGED vars
  BY <1>0, <1>1, <1>6 DEF vars, Pending
<1>7. CASE RedisRestart
  BY <1>0, <1>1, <1>7 DEF RedisRestart, Pending, TypeOK
<1> QED
  BY <1>2, <1>3, <1>4, <1>5, <1>6, <1>7, <1>8 DEF Next, Continue, Unanswered

\* However many login requests run at once, the failures counted for an
\* identity pass the threshold by less than the number of request slots.
THEOREM OvershootBounded == Spec => []FailuresBounded
<1>1. Init => FailuresBounded
  <2> SUFFICES ASSUME Init, NEW k \in Keys
               PROVE  failures[k] + Cardinality(Pending(k)) <= MaxAttempts - 1 + Cardinality(Requests)
    BY DEF FailuresBounded
  <2>1. failures[k] = 0
    BY DEF Init
  <2> QED
    BY <2>1, PendingFinite, ConfigAssumption
<1>2. TypeOK /\ FailuresBounded /\ [Next]_vars => FailuresBounded'
  BY ThrottleTypeStep, BudgetStep
<1> QED
  BY <1>1, <1>2, ThrottleTypeCorrect, PTL DEF Spec

-----------------------------------------------------------------------------
(* The two services *)

\* Every action of login is the throttle's action of the same name, or a
\* stutter of the throttle.
LEMMA ThrottleStep == [LoginNext]_loginVars => [Next]_vars
<1> SUFFICES ASSUME [LoginNext]_loginVars, ~ UNCHANGED throttleVars PROVE Next
  BY DEF throttleVars, vars
<1>1. ASSUME NEW r \in Requests, NEW a \in Attempts, Check(r, a) PROVE Next
  <2>1. AssertNotLocked(r, KeyOf[a]) /\ KeyOf[a] \in Keys
    BY <1>1, AttemptsAssumption DEF Check
  <2> QED BY <2>1 DEF Next
<1>2. ASSUME NEW r \in Requests, Continue(r) \/ Unanswered(r) \/ Fail(r) PROVE Next
  BY <1>2 DEF Next
<1>3. ASSUME NEW r \in Requests, CountFailure(r) \/ LockOut(r) \/ PasswordRight(r) PROVE Next
  BY <1>2, <1>3 DEF Continue, CountFailure, CountIt, LockOut, PasswordRight, ClearCounter
<1>8. ASSUME NEW r \in Requests,
             CountUnanswered(r) \/ LockOutUnanswered(r) \/ ClearUnanswered(r)
      PROVE  Next
  BY <1>2, <1>8 DEF Unanswered, CountUnanswered, LockOutUnanswered, ClearUnanswered
<1>4. ASSUME NEW r \in Requests, Die(r) PROVE Next
  BY <1>2, <1>4 DEF Die
<1>5. ASSUME RedisTick \/ RedisForgets PROVE Next
  BY <1>5 DEF RedisTick, RedisForgets, Next
<1>6. ASSUME NEW r \in Requests,
             \/ FindUser(r) \/ FindNobody(r) \/ PasswordWrong(r) \/ MarkLoggedIn(r) \/ TokenStep(r)
             \/ \E f \in Families, t \in Tokens : IssueSession(r, f, t)
      PROVE  FALSE
  BY <1>6 DEF FindUser, FindNobody, PasswordWrong, MarkLoggedIn, TokenStep, IssueSession
<1>7. ~ Elsewhere /\ ~ UNCHANGED loginVars
  BY DEF Elsewhere, loginVars
<1> QED BY <1>1, <1>3, <1>4, <1>5, <1>6, <1>7, <1>8 DEF LoginNext

\* Every step of login is a step of LoginThrottle or leaves it alone.
THEOREM ThrottleRefined == LoginSpec => ImplementsThrottle
<1>1. LoginInit => Init
  BY DEF LoginInit
<1> QED BY <1>1, ThrottleStep, PTL DEF LoginSpec, ImplementsThrottle, Spec

\* The steps handed over to the token table are steps of RefreshTokens.
LEMMA TokenStepIsNext ==
  ASSUME NEW r \in Requests, TokenStep(r)
  PROVE  R!Next
BY DEF TokenStep, R!Next, R!Continue

\* Every action of login is an action of the token table, or a stutter of it.
LEMMA TokensStep == [LoginNext]_loginVars => [R!Next]_(R!vars)
<1> SUFFICES ASSUME [LoginNext]_loginVars, ~ UNCHANGED tokenVars PROVE R!Next
  BY DEF R!vars, tokenVars
<1>1. ASSUME NEW r \in Requests, R!Fail(r) PROVE R!Next
  BY <1>1 DEF R!Next
<1>2. ASSUME NEW r \in Requests, FindUser(r) PROVE R!Next
  <2> DEFINE u == Account[login[r].attempt]
  <2>1. R!LoginFind(r, u) /\ u \in Users
    BY <1>2 DEF FindUser, FindActiveUser, Found
  <2> HIDE DEF u
  <2> QED BY <2>1 DEF R!Next
<1>3. ASSUME NEW r \in Requests, NEW f \in Families, NEW t \in Tokens, IssueSession(r, f, t)
      PROVE  R!Next
  BY <1>3 DEF IssueSession, R!Next, R!Continue
<1>4. ASSUME NEW r \in Requests, PasswordWrong(r) \/ Die(r) PROVE R!Next
  BY <1>1, <1>4 DEF PasswordWrong, Die
<1>5. ASSUME Elsewhere PROVE R!Next
  BY <1>5 DEF Elsewhere, R!Next
<1>6. ASSUME NEW r \in Requests,
             \/ \E a \in Attempts : Check(r, a)
             \/ FindNobody(r) \/ CountFailure(r) \/ LockOut(r) \/ PasswordRight(r)
             \/ MarkLoggedIn(r)
             \/ CountUnanswered(r) \/ LockOutUnanswered(r) \/ ClearUnanswered(r)
      PROVE  FALSE
  BY <1>6 DEF Check, FindNobody, CountFailure, LockOut, PasswordRight, MarkLoggedIn,
    CountUnanswered, LockOutUnanswered, ClearUnanswered
<1>7. ~ RedisTick /\ ~ RedisForgets /\ ~ UNCHANGED loginVars
  BY DEF RedisTick, RedisForgets, loginVars
<1> QED BY <1>2, <1>3, <1>4, <1>5, <1>6, <1>7, TokenStepIsNext DEF LoginNext

\* Every step of login is a step of RefreshTokens or leaves it alone.
THEOREM TokensRefined == LoginSpec => ImplementsTokens
<1>1. LoginInit => R!Init
  BY DEF LoginInit
<1> QED BY <1>1, TokensStep, PTL DEF LoginSpec, ImplementsTokens, R!Spec

-----------------------------------------------------------------------------
(* What was proved of each *)

\* In the whole of login an identity's budget is overrun by concurrency only,
\* and a lockout runs its full length.
THEOREM ThrottleHolds == LoginSpec => [](TypeOK /\ FailuresBounded /\ LockoutRunsFull)
BY ThrottleRefined, ThrottleTypeCorrect, OvershootBounded, LockoutIsFull, PTL DEF ImplementsThrottle

\* The token table that the proofs know is the one that login uses.
LEMMA SameTokens ==
  /\ R!Init => RP!Init
  /\ [R!Next]_(R!vars) => [RP!Next]_(RP!vars)
<1> USE DEF R!Idle, RP!Idle, R!Answer, RP!Answer, R!Stored, RP!Stored, R!Live, RP!Live,
     R!Revoke, RP!Revoke, R!Sign, RP!Sign, R!Presentable, RP!Presentable
<1>1. R!Init => RP!Init
  BY DEF R!Init, RP!Init
<1>2. ASSUME NEW r \in Requests
      PROVE  /\ \A u \in Users : R!LoginFind(r, u) => RP!LoginFind(r, u)
             /\ \A t \in Tokens : R!RefreshFind(r, t) => RP!RefreshFind(r, t)
             /\ \A t \in Tokens : R!LogoutFind(r, t) => RP!LogoutFind(r, t)
             /\ R!Fail(r) => RP!Fail(r)
  BY DEF R!LoginFind, RP!LoginFind, R!RefreshFind, RP!RefreshFind, R!LogoutFind, RP!LogoutFind,
    R!Fail, RP!Fail
<1>3. ASSUME NEW r \in Requests
      PROVE  R!Continue(r) => RP!Continue(r)
  BY DEF R!Continue, RP!Continue, R!Login, RP!Login, R!FreshFamily, RP!FreshFamily,
    R!ClaimWon, RP!ClaimWon, R!ClaimLost, RP!ClaimLost, R!Claimable, RP!Claimable,
    R!UserAccepted, RP!UserAccepted, R!UserRefused, RP!UserRefused, R!UserIsActive, RP!UserIsActive,
    R!Purge, RP!Purge, R!ExpiredRow, RP!ExpiredRow, R!Create, RP!Create,
    R!RevokeFamily, RP!RevokeFamily, R!Revoking, RP!Revoking, R!RevokeAllOf, RP!RevokeAllOf,
    R!LiveIn, RP!LiveIn
<1>4. (\E u \in Users : R!SetActive(u)) \/ R!Tick => (\E u \in Users : RP!SetActive(u)) \/ RP!Tick
  BY DEF R!SetActive, RP!SetActive, R!Tick, RP!Tick
<1>5. R!Next => RP!Next
  BY <1>2, <1>3, <1>4 DEF R!Next, RP!Next
<1> QED BY <1>1, <1>5 DEF R!vars, RP!vars

\* The assumptions of RefreshTokens follow from those of Login.
LEMMA TokensAssumed == RP!LifetimeAssumption /\ RP!MaxTimeAssumption /\ RP!NoneAssumption
BY TokensAssumption DEF RP!LifetimeAssumption, RP!MaxTimeAssumption, RP!NoneAssumption, R!Row, RP!Row

\* A behaviour of login is one of the token table the proofs are about.
LEMMA TokensSpec == LoginSpec => RP!Spec
<1>1. LoginInit => RP!Init
  BY SameTokens DEF LoginInit
<1>2. [LoginNext]_loginVars => [RP!Next]_(RP!vars)
  BY SameTokens, TokensStep
<1> QED BY <1>1, <1>2, PTL DEF LoginSpec, RP!Spec

\* In the whole of login, rotation and the detection of reuse hold.
THEOREM TokensHold ==
  LoginSpec => [](R!TypeOK /\ R!OneTokenPerFamily /\ R!SpentStaysDetectable /\ R!AlarmIsJustified)
<1>1. RP!Spec => []RP!TypeOK
  BY TokensAssumed, RP!TypeCorrect
<1>2. RP!Spec => []RP!OneTokenPerFamily
  BY TokensAssumed, RP!Rotation
<1>3. RP!Spec => []RP!SpentStaysDetectable
  BY TokensAssumed, RP!ReuseDetectable
<1>4. RP!Spec => []RP!AlarmIsJustified
  BY TokensAssumed, RP!NoFalseAlarm
<1> USE DEF R!Stored, RP!Stored, R!Live, RP!Live, R!LiveIn, RP!LiveIn, R!Holders, RP!Holders,
     R!Holding, RP!Holding, R!Issuing, RP!Issuing
<1>5. RP!TypeOK => R!TypeOK
  BY DEF R!TypeOK, RP!TypeOK, R!Row, RP!Row, R!RequestsOK, RP!RequestsOK, R!RequestState, RP!RequestState,
    R!Revoking, RP!Revoking
<1>6. /\ RP!OneTokenPerFamily => R!OneTokenPerFamily
      /\ RP!SpentStaysDetectable => R!SpentStaysDetectable
      /\ RP!AlarmIsJustified => R!AlarmIsJustified
  BY DEF R!OneTokenPerFamily, RP!OneTokenPerFamily, R!SpentStaysDetectable, RP!SpentStaysDetectable,
    R!AlarmIsJustified, RP!AlarmIsJustified, R!Over, RP!Over
<1> QED BY <1>1, <1>2, <1>3, <1>4, <1>5, <1>6, TokensSpec, PTL

-----------------------------------------------------------------------------
(* Login itself *)

\* The steps of one request leave the others as they stand.
LEMMA OneRequest ==
  ASSUME LoginTypeOK, NEW r \in Requests,
         NEW l \in [step : Steps, attempt : Attempts \union {None}],
         login' = [login EXCEPT ![r] = l],
         \A q \in Requests \ {r} : at'[q] = at[q] /\ key'[q] = key[q] /\ req'[q] = req[q],
         Fits(r)'
  PROVE  /\ login' \in [Requests -> [step : Steps, attempt : Attempts \union {None}]]
         /\ \A q \in Requests : Fits(q)'
<1>1. \A q \in Requests \ {r} : login'[q] = login[q] /\ Fits(q)
  BY DEF LoginTypeOK
<1> QED BY <1>1 DEF LoginTypeOK, Fits

\* The guesses and the attempts keep their type.
LEMMA GuessesStep ==
  ASSUME LoginTypeOK, [LoginNext]_loginVars
  PROVE  guesses' \in [Keys -> [0 .. LockoutSeconds -> Nat]]
<1> USE ConfigAssumption DEF LoginTypeOK, NoGuesses
<1>1. ASSUME NEW r \in Requests, PasswordRight(r) \/ ClearUnanswered(r)
      PROVE  guesses' \in [Keys -> [0 .. LockoutSeconds -> Nat]]
  <2>1. NoGuesses \in [0 .. LockoutSeconds -> Nat]
    OBVIOUS
  <2>2. guesses' = [guesses EXCEPT ![key[r]] = NoGuesses] /\ guesses \in [Keys -> [0 .. LockoutSeconds -> Nat]]
    BY <1>1 DEF PasswordRight, ClearUnanswered
  <2> HIDE DEF NoGuesses
  <2> QED BY <2>1, <2>2
<1>2. ASSUME NEW r \in Requests, CountFailure(r) \/ CountUnanswered(r)
      PROVE  guesses' \in [Keys -> [0 .. LockoutSeconds -> Nat]]
  <2>1. key[r] \in Keys
    <3>1. at[r] # "idle"
      BY <1>2 DEF CountFailure, CountIt, RecordFailure, CountUnanswered, RecordUnanswered, Increment
    <3> QED BY <3>1 DEF TypeOK
  <2>2. OneMore(guesses[key[r]]) \in [0 .. LockoutSeconds -> Nat]
    BY <2>1 DEF OneMore
  <2> QED BY <1>2, <2>1, <2>2 DEF CountFailure, CountUnanswered, Guessed
<1>3. ASSUME RedisTick \/ RedisForgets
      PROVE  guesses' \in [Keys -> [0 .. LockoutSeconds -> Nat]]
  <2>1. ASSUME NEW k \in Keys PROVE Older(guesses[k]) \in [0 .. LockoutSeconds -> Nat]
    BY <2>1 DEF Older
  <2> QED BY <1>3, <2>1 DEF RedisTick, RedisForgets
<1>4. ASSUME \/ UNCHANGED loginVars
             \/ Elsewhere
             \/ \E r \in Requests :
                  \/ \E a \in Attempts : Check(r, a)
                  \/ FindUser(r) \/ FindNobody(r) \/ PasswordWrong(r) \/ LockOut(r)
                  \/ LockOutUnanswered(r) \/ MarkLoggedIn(r) \/ TokenStep(r) \/ Die(r)
                  \/ \E f \in Families, t \in Tokens : IssueSession(r, f, t)
      PROVE  guesses' = guesses
  BY <1>4 DEF loginVars, Elsewhere, Check, FindUser, FindNobody, PasswordWrong, LockOut,
    LockOutUnanswered, MarkLoggedIn, TokenStep, Die, IssueSession
<1> QED BY <1>1, <1>2, <1>3, <1>4 DEF LoginNext

\* What the token actions make of the place of the request in them.
LEMMA TokenMoves ==
  ASSUME LoginTypeOK, NEW r \in Requests
  PROVE  /\ \A u \in Users : R!LoginFind(r, u) =>
              req'[r].pc = "login" /\ \A q \in Requests \ {r} : req'[q] = req[q]
         /\ \A f \in Families, t \in Tokens : R!Login(r, f, t) =>
              req'[r].pc = "purge" /\ \A q \in Requests \ {r} : req'[q] = req[q]
         /\ R!Fail(r) => req'[r].pc = "idle" /\ \A q \in Requests \ {r} : req'[q] = req[q]
         /\ TokenStep(r) =>
              req[r].pc # "login" /\ req'[r].pc # "login" /\ \A q \in Requests \ {r} : req'[q] = req[q]
<1> USE DEF LoginTypeOK, R!TypeOK, R!RequestsOK, R!Idle, R!Answer
<1>1. ASSUME NEW u \in Users, R!LoginFind(r, u)
      PROVE  req'[r].pc = "login" /\ \A q \in Requests \ {r} : req'[q] = req[q]
  BY <1>1 DEF R!LoginFind
<1>2. ASSUME NEW f \in Families, NEW t \in Tokens, R!Login(r, f, t)
      PROVE  req'[r].pc = "purge" /\ \A q \in Requests \ {r} : req'[q] = req[q]
  BY <1>2 DEF R!Login, R!Sign
<1>3. ASSUME R!Fail(r)
      PROVE  req'[r].pc = "idle" /\ \A q \in Requests \ {r} : req'[q] = req[q]
  BY <1>3 DEF R!Fail
<1>4. ASSUME TokenStep(r)
      PROVE  req[r].pc # "login" /\ req'[r].pc # "login" /\ \A q \in Requests \ {r} : req'[q] = req[q]
  <2>1. ASSUME NEW t \in Tokens, R!RefreshFind(r, t) \/ R!LogoutFind(r, t) \/ R!UserAccepted(r, t)
        PROVE  req[r].pc # "login" /\ req'[r].pc # "login" /\ \A q \in Requests \ {r} : req'[q] = req[q]
    BY <2>1 DEF R!RefreshFind, R!LogoutFind, R!UserAccepted, R!Sign
  <2>2. ASSUME R!ClaimWon(r) \/ R!ClaimLost(r) \/ R!UserRefused(r) \/ R!Purge(r)
        PROVE  req[r].pc # "login" /\ req'[r].pc # "login" /\ \A q \in Requests \ {r} : req'[q] = req[q]
    BY <2>2 DEF R!ClaimWon, R!ClaimLost, R!UserRefused, R!Purge, R!RequestState
  <2>3. ASSUME R!Create(r) \/ R!RevokeFamily(r)
        PROVE  req[r].pc # "login" /\ req'[r].pc # "login" /\ \A q \in Requests \ {r} : req'[q] = req[q]
    BY <2>3 DEF R!Create, R!RevokeFamily, R!Revoking
  <2> QED BY <1>4, <2>1, <2>2, <2>3 DEF TokenStep
<1> QED BY <1>1, <1>2, <1>3, <1>4

\* One step keeps the place of every request in login, in the throttle and in
\* the token table fitting together.
LEMMA LoginStep ==
  ASSUME LoginTypeOK, TypeOK', R!TypeOK', [LoginNext]_loginVars
  PROVE  /\ login' \in [Requests -> [step : Steps, attempt : Attempts \union {None}]]
         /\ \A q \in Requests : Fits(q)'
<1> DEFINE Goal == /\ login' \in [Requests -> [step : Steps, attempt : Attempts \union {None}]]
                   /\ \A q \in Requests : Fits(q)'
           Others(r) == \A q \in Requests \ {r} : at'[q] = at[q] /\ key'[q] = key[q] /\ req'[q] = req[q]
<1>1. ASSUME NEW r \in Requests, NEW s \in Steps, NEW a \in Attempts \union {None},
             login' = [login EXCEPT ![r] = [step |-> s, attempt |-> a]], Others(r), Fits(r)'
      PROVE  Goal
  BY <1>1, OneRequest
<1>2. ASSUME NEW r \in Requests
      PROVE  /\ login[r].attempt \in Attempts \union {None} /\ login[r].step \in Steps
             /\ login[r] = [step |-> login[r].step, attempt |-> login[r].attempt]
             /\ login[r].step # "none" => login[r].attempt \in Attempts
  BY DEF LoginTypeOK, Fits
<1>0. ASSUME NEW r \in Requests, NEW s \in Steps, MoveTo(r, s)
      PROVE  login' = [login EXCEPT ![r] = [step |-> s, attempt |-> login[r].attempt]]
  <2>1. [login[r] EXCEPT !.step = s] = [step |-> s, attempt |-> login[r].attempt]
    BY login[r] \in [step : Steps, attempt : Attempts \union {None}] DEF LoginTypeOK
  <2>2. login' = [login EXCEPT ![r] = [login[r] EXCEPT !.step = s]]
    BY <1>0 DEF MoveTo
  <2> QED BY <2>1, <2>2
<1> USE AttemptsAssumption DEF Steps, Goto, Answer, PlaceIn
<1>3. ASSUME NEW r \in Requests, NEW a \in Attempts, Check(r, a) PROVE Goal
  <2>1. Others(r) /\ at'[r] = "verify" /\ key'[r] = KeyOf[a] /\ req' = req /\ req[r].pc = "idle"
    BY <1>3 DEF Check, AssertNotLocked, Free, LoginTypeOK, TypeOK, tokenVars
  <2>2. login' = [login EXCEPT ![r] = [step |-> "find", attempt |-> a]]
    BY <1>3 DEF Check
  <2>3. Fits(r)'
    BY <2>1, <2>2 DEF Fits, LoginTypeOK
  <2> QED BY <1>1, <2>1, <2>2, <2>3
<1>4. ASSUME NEW r \in Requests, FindUser(r) PROVE Goal
  <2>1. Others(r) /\ UNCHANGED <<at, key>> /\ req'[r].pc = "login"
    BY <1>4, TokenMoves DEF FindUser, FindActiveUser, Found, throttleVars, vars
  <2>2. login' = [login EXCEPT ![r] = [step |-> "compare", attempt |-> login[r].attempt]]
    BY <1>0, <1>4 DEF FindUser
  <2>3. Fits(r)'
    BY <1>2, <1>4, <2>1, <2>2 DEF Fits, LoginTypeOK, FindUser
  <2> QED BY <1>1, <1>2, <2>1, <2>2, <2>3
<1>5. ASSUME NEW r \in Requests, FindNobody(r) PROVE Goal
  <2>1. Others(r) /\ UNCHANGED <<at, key, req>>
    BY <1>5 DEF FindNobody, throttleVars, vars, tokenVars
  <2>2. login' = [login EXCEPT ![r] = [step |-> "refuse", attempt |-> login[r].attempt]]
    BY <1>0, <1>5 DEF FindNobody
  <2>3. Fits(r)'
    BY <1>2, <1>5, <2>1, <2>2 DEF Fits, LoginTypeOK, FindNobody
  <2> QED BY <1>1, <1>2, <2>1, <2>2, <2>3
<1>6. ASSUME NEW r \in Requests, PasswordWrong(r) PROVE Goal
  <2>1. Others(r) /\ UNCHANGED <<at, key>> /\ req'[r].pc = "idle"
    BY <1>6, TokenMoves DEF PasswordWrong, throttleVars, vars
  <2>2. login' = [login EXCEPT ![r] = [step |-> "refuse", attempt |-> login[r].attempt]]
    BY <1>0, <1>6 DEF PasswordWrong
  <2>3. Fits(r)'
    BY <1>2, <1>6, <2>1, <2>2 DEF Fits, LoginTypeOK, PasswordWrong
  <2> QED BY <1>1, <1>2, <2>1, <2>2, <2>3
<1>7. ASSUME NEW r \in Requests, CountFailure(r) PROVE Goal
  <2>1. /\ Others(r) /\ UNCHANGED req
        /\ \/ at'[r] = "idle"
           \/ at'[r] = "lockout" /\ key'[r] = key[r]
    BY <1>7 DEF CountFailure, CountIt, RecordFailure, Increment, LoginTypeOK, TypeOK, tokenVars
  <2>2. CASE at'[r] = "idle"
    <3>1. login' = [login EXCEPT ![r] = [step |-> "none", attempt |-> None]]
      BY <1>7, <2>2 DEF CountFailure, Leave, NoLogin
    <3>2. Fits(r)'
      BY <1>2, <1>7, <2>1, <2>2, <3>1 DEF Fits, LoginTypeOK, CountFailure
    <3> QED BY <1>1, <2>1, <3>1, <3>2
  <2>3. CASE at'[r] = "lockout" /\ key'[r] = key[r]
    <3>1. login' = [login EXCEPT ![r] = [step |-> "lockout", attempt |-> login[r].attempt]]
      BY <1>0, <1>7, <2>3 DEF CountFailure
    <3>2. Fits(r)'
      BY <1>2, <1>7, <2>1, <2>3, <3>1 DEF Fits, LoginTypeOK, CountFailure
    <3> QED BY <1>1, <1>2, <2>1, <3>1, <3>2
  <2> QED BY <2>1, <2>2, <2>3
<1>8. ASSUME NEW r \in Requests, LockOut(r) PROVE Goal
  <2>1. Others(r) /\ UNCHANGED req /\ at'[r] = "idle"
    BY <1>8 DEF LockOut, StartLockout, Extend, LoginTypeOK, TypeOK, tokenVars
  <2>2. login' = [login EXCEPT ![r] = [step |-> "none", attempt |-> None]]
    BY <1>8 DEF LockOut, Leave, NoLogin
  <2>3. Fits(r)'
    BY <1>2, <1>8, <2>1, <2>2 DEF Fits, LoginTypeOK, LockOut
  <2> QED BY <1>1, <2>1, <2>2, <2>3
<1>9. ASSUME NEW r \in Requests, PasswordRight(r) PROVE Goal
  <2>1. Others(r) /\ UNCHANGED req /\ at'[r] = "idle"
    BY <1>9 DEF PasswordRight, ClearCounter, Reset, Delete, LoginTypeOK, TypeOK, tokenVars
  <2>2. login' = [login EXCEPT ![r] = [step |-> "mark", attempt |-> login[r].attempt]]
    BY <1>0, <1>9 DEF PasswordRight
  <2>3. Fits(r)'
    BY <1>2, <1>9, <2>1, <2>2 DEF Fits, LoginTypeOK, PasswordRight
  <2> QED BY <1>1, <1>2, <2>1, <2>2, <2>3
<1>10. ASSUME NEW r \in Requests, MarkLoggedIn(r) PROVE Goal
  <2>1. Others(r) /\ UNCHANGED <<at, key, req>>
    BY <1>10 DEF MarkLoggedIn, throttleVars, vars, tokenVars
  <2>2. login' = [login EXCEPT ![r] = [step |-> "issue", attempt |-> login[r].attempt]]
    BY <1>0, <1>10 DEF MarkLoggedIn
  <2>3. Fits(r)'
    BY <1>2, <1>10, <2>1, <2>2 DEF Fits, LoginTypeOK, MarkLoggedIn
  <2> QED BY <1>1, <1>2, <2>1, <2>2, <2>3
<1>11. ASSUME NEW r \in Requests, NEW f \in Families, NEW t \in Tokens, IssueSession(r, f, t) PROVE Goal
  <2>1. Others(r) /\ UNCHANGED <<at, key>> /\ req'[r].pc = "purge"
    BY <1>11, TokenMoves DEF IssueSession, throttleVars, vars
  <2>2. login' = [login EXCEPT ![r] = [step |-> "none", attempt |-> None]]
    BY <1>11 DEF IssueSession, Leave, NoLogin
  <2>3. at[r] = "idle"
    <3>1. Fits(r)
      BY DEF LoginTypeOK
    <3> QED BY <1>11, <3>1 DEF IssueSession, Fits
  <2>4. login'[r] = [step |-> "none", attempt |-> None]
    BY <2>2 DEF LoginTypeOK
  <2>5. Fits(r)'
    BY <2>1, <2>3, <2>4 DEF Fits
  <2> QED BY <1>1, <2>1, <2>2, <2>5
<1>12. ASSUME NEW r \in Requests, TokenStep(r) PROVE Goal
  <2>1. Others(r) /\ UNCHANGED <<at, key>> /\ req'[r].pc # "login"
    BY <1>12, TokenMoves DEF TokenStep, throttleVars, vars
  <2>2. login' = [login EXCEPT ![r] = [step |-> "none", attempt |-> None]] /\ login[r].step = "none"
    BY <1>12 DEF TokenStep, NoLogin, LoginTypeOK
  <2>3. Fits(r)'
    BY <1>2, <2>1, <2>2 DEF Fits, LoginTypeOK
  <2> QED BY <1>1, <2>1, <2>2, <2>3
<1>13. ASSUME NEW r \in Requests, Die(r) PROVE Goal
  <2>1. Others(r) /\ req'[r].pc = "idle"
    BY <1>13, TokenMoves DEF Die, Fail, throttleVars, vars, tokenVars, LoginTypeOK, TypeOK
  <2>2. at'[r] = "idle"
    BY <1>13 DEF Die, Fail, throttleVars, vars, LoginTypeOK, TypeOK
  <2>3. login' = [login EXCEPT ![r] = [step |-> "none", attempt |-> None]]
    BY <1>13 DEF Die, Leave, NoLogin
  <2>4. Fits(r)'
    BY <2>1, <2>2, <2>3 DEF Fits, LoginTypeOK
  <2> QED BY <1>1, <2>1, <2>3, <2>4
<1>15. ASSUME NEW r \in Requests, CountUnanswered(r) PROVE Goal
  <2>1. Others(r) /\ UNCHANGED <<req, login>> /\ at'[r] = "repeat" /\ key'[r] = key[r]
    <3>1. Goto(r, "repeat", key[r]) /\ UNCHANGED <<req, login>>
      BY <1>15 DEF CountUnanswered, RecordUnanswered, tokenVars
    <3> QED BY <3>1 DEF LoginTypeOK, TypeOK
  <2>2. Fits(r)'
    <3>1. login[r].step = "refuse" /\ at[r] # "idle" /\ Fits(r)
      BY <1>15 DEF LoginTypeOK, CountUnanswered, RecordUnanswered, Increment
    <3> QED BY <2>1, <3>1 DEF Fits
  <2>3. ASSUME NEW q \in Requests \ {r} PROVE Fits(q)'
    <3>1. Fits(q)
      BY DEF LoginTypeOK
    <3> QED BY <2>1, <3>1 DEF Fits
  <2>4. login' \in [Requests -> [step : Steps, attempt : Attempts \union {None}]]
    BY <2>1 DEF LoginTypeOK
  <2> QED BY <2>2, <2>3, <2>4
<1>16. ASSUME NEW r \in Requests, LockOutUnanswered(r) PROVE Goal
  <2>1. Others(r) /\ UNCHANGED <<req, login>> /\ at'[r] = at[r] /\ key'[r] = key[r]
    <3>1. Goto(r, "lockout", key[r]) /\ at[r] = "lockout" /\ UNCHANGED <<req, login>>
      BY <1>16 DEF LockOutUnanswered, StartUnanswered, Extend, tokenVars
    <3> QED BY <3>1 DEF LoginTypeOK, TypeOK
  <2>2. ASSUME NEW q \in Requests PROVE Fits(q)'
    <3>1. Fits(q)
      BY DEF LoginTypeOK
    <3> QED BY <2>1, <3>1 DEF Fits
  <2>3. login' \in [Requests -> [step : Steps, attempt : Attempts \union {None}]]
    BY <2>1 DEF LoginTypeOK
  <2> QED BY <2>2, <2>3
<1>17. ASSUME NEW r \in Requests, ClearUnanswered(r) PROVE Goal
  <2>1. Others(r) /\ UNCHANGED req /\ at'[r] = "clear" /\ key'[r] = key[r]
    BY <1>17 DEF ClearUnanswered, ResetUnanswered, Delete, LoginTypeOK, TypeOK, tokenVars
  <2>2. login' = [login EXCEPT ![r] = [step |-> "clear", attempt |-> login[r].attempt]]
    BY <1>0, <1>17 DEF ClearUnanswered
  <2>3. at[r] # "idle"
    BY <1>17 DEF ClearUnanswered, ResetUnanswered, Delete
  <2>4. Fits(r)'
    BY <1>2, <1>17, <2>1, <2>2, <2>3 DEF Fits, LoginTypeOK, ClearUnanswered
  <2> QED BY <1>1, <1>2, <2>1, <2>2, <2>4
<1>14. ASSUME RedisTick \/ RedisForgets \/ Elsewhere \/ UNCHANGED loginVars PROVE Goal
  <2>1. UNCHANGED <<at, key, login, req>>
    BY <1>14 DEF RedisTick, RedisForgets, Elsewhere, Tick, RedisRestart, R!Tick,
      R!SetActive, loginVars, throttleVars, vars, tokenVars
  <2> QED BY <2>1 DEF LoginTypeOK, Fits
<1> QED
  BY <1>3, <1>4, <1>5, <1>6, <1>7, <1>8, <1>9, <1>10, <1>11, <1>12, <1>13, <1>14,
    <1>15, <1>16, <1>17 DEF LoginNext

\* The shape of the state: a request is in one part of login at a time, and
\* its attempt is the account it was checked for.
THEOREM LoginTypeCorrect == LoginSpec => []LoginTypeOK
<1> DEFINE Here == /\ login \in [Requests -> [step : Steps, attempt : Attempts \union {None}]]
                   /\ guesses \in [Keys -> [0 .. LockoutSeconds -> Nat]]
                   /\ \A r \in Requests : Fits(r)
<1>1. LoginInit => Here
  BY ConfigAssumption DEF LoginInit, Init, R!Init, R!Idle, NoLogin, NoGuesses, Steps, Fits, PlaceIn
<1>2. LoginTypeOK /\ TypeOK' /\ R!TypeOK' /\ [LoginNext]_loginVars => Here'
  BY LoginStep, GuessesStep
<1>3. LoginTypeOK <=> TypeOK /\ R!TypeOK /\ Here
  BY DEF LoginTypeOK
<1>4. LoginSpec => [](TypeOK /\ R!TypeOK)
  BY ThrottleHolds, TokensHold, PTL
<1> HIDE DEF Here
<1> QED BY <1>1, <1>2, <1>3, <1>4, PTL DEF LoginSpec

-----------------------------------------------------------------------------
(* The rate of guessing *)

\* A repeated count is part of the running window, so that the threshold was
\* reached one failure early.
Early(k) ==
  /\ failures[k] < count[k]
  /\ failures[k] + Cardinality(Pending(k)) <= MaxAttempts - 2 + Cardinality(Requests)

\* What the history of an identity has to do with its counter: the guesses of
\* the running window are counted, and it was opened by one of the present tick
\* or by a repeated count; the older ones of the lockout period fit into one
\* window more.
Accounted(k) ==
  /\ guesses[k][0] = 0
  /\ ttl[k] > 0 =>
       \A n \in 0 .. LockoutSeconds - ttl[k] :
         guesses[k][n] < failures[k] \/ (Early(k) /\ guesses[k][n] = failures[k])
  /\ \A n \in 0 .. LockoutSeconds :
       guesses[k][n] <= failures[k] + MaxAttempts - 2 + Cardinality(Requests)

\* The requests are finitely many, and at least one.
LEMMA SlotsCounted == Cardinality(Requests) \in Nat \ {0}
BY RequestsAssumption, SlotsAssumption, FS_CardinalityType, FS_EmptySet

\* The failures of an identity stay within the budget of one window.
LEMMA FailuresWithinBudget ==
  ASSUME TypeOK, FailuresBounded, NEW k \in Keys
  PROVE  failures[k] <= MaxAttempts - 1 + Cardinality(Requests)
<1>1. failures[k] + Cardinality(Pending(k)) <= MaxAttempts - 1 + Cardinality(Requests)
  BY DEF FailuresBounded
<1> QED BY <1>1, PendingFinite, ConfigAssumption DEF TypeOK

\* Once a repeated count is in the counter, the window keeps its lower budget.
LEMMA EarlyStays ==
  ASSUME TypeOK, TypeOK', [Next]_vars, NEW k \in Keys, Early(k), count'[k] >= count[k]
  PROVE  Early(k)'
<1> DEFINE E == MaxAttempts - 2 + Cardinality(Requests)
<1>0. /\ failures[k] < count[k] /\ failures[k] + Cardinality(Pending(k)) <= E
      /\ failures[k] \in Nat /\ count[k] \in Nat /\ failures'[k] \in Nat /\ count'[k] \in Nat
      /\ Cardinality(Pending(k)) \in Nat /\ Cardinality(Pending(k)') \in Nat
      /\ Cardinality(Pending(k)') <= Cardinality(Requests)
      /\ Cardinality(Requests) \in Nat
  BY PendingFinite, PendingFiniteNext DEF TypeOK, Early
<1>1. ASSUME Pending(k)' \subseteq Pending(k), failures'[k] = failures[k]
      PROVE  Early(k)'
  <2>1. Cardinality(Pending(k)') <= Cardinality(Pending(k))
    BY <1>1, PendingFinite, FS_Subset
  <2> QED
    BY <1>0, <1>1, <2>1, ConfigAssumption DEF Early
<1>2. ASSUME NEW r \in Requests, NEW j \in Keys, AssertNotLocked(r, j)
      PROVE  Early(k)'
  <2>1. CASE j = k
    <3>1. /\ failures'[k] = failures[k] /\ count'[k] = count[k]
          /\ count[k] <= MaxAttempts - 1
      BY <1>2, <2>1, ConfigAssumption DEF AssertNotLocked, Locked, TypeOK
    <3> QED
      BY <1>0, <3>1, ConfigAssumption DEF Early
  <2>2. CASE j # k
    BY <1>1, <1>2, <2>2 DEF AssertNotLocked, Goto, Pending, TypeOK
  <2> QED
    BY <2>1, <2>2
<1>3. ASSUME NEW r \in Requests, RecordFailure(r) \/ RecordUnanswered(r)
      PROVE  Early(k)'
  <2>1. Increment(r) /\ Pending(k)' = Pending(k) \ {r}
    BY <1>3 DEF RecordFailure, RecordUnanswered, Increment, Answer, Goto, Pending, TypeOK
  <2>2. CASE r \in Pending(k)
    <3>1. Cardinality(Pending(k)') = Cardinality(Pending(k)) - 1
      BY <2>1, <2>2, PendingFinite, FS_RemoveElement
    <3>2. failures'[k] = failures[k] + 1 /\ count'[k] = count[k] + 1
      BY <2>1, <2>2 DEF Increment, Pending, TypeOK
    <3> QED
      BY <1>0, <3>1, <3>2, ConfigAssumption DEF Early
  <2>3. CASE r \notin Pending(k)
    <3>1. failures'[k] = failures[k]
      BY <2>1, <2>3 DEF Increment, Pending, TypeOK
    <3> QED
      BY <1>1, <2>1, <3>1
  <2> QED
    BY <2>2, <2>3
<1>4. ASSUME NEW r \in Requests, StartLockout(r) \/ StartUnanswered(r) \/ Fail(r)
      PROVE  Early(k)'
  BY <1>1, <1>4 DEF StartLockout, StartUnanswered, Extend, Fail, Answer, Goto, Pending, TypeOK
<1>5. ASSUME NEW r \in Requests, Reset(r) \/ ResetUnanswered(r)
      PROVE  Early(k)'
  <2>1. key[r] # k
    BY <1>0, <1>5 DEF Reset, ResetUnanswered, Delete, TypeOK
  <2> QED
    BY <1>1, <1>5, <2>1 DEF Reset, ResetUnanswered, Delete, Answer, Goto, Pending, TypeOK
<1>6. CASE Tick
  BY <1>0, <1>1, <1>6 DEF Tick, Pending, TypeOK
<1>7. CASE RedisRestart
  BY <1>0, <1>1, <1>7 DEF RedisRestart, Pending, TypeOK
<1>8. CASE UNCHANGED vars
  BY <1>1, <1>8 DEF vars, Pending
<1> QED
  BY <1>2, <1>3, <1>4, <1>5, <1>6, <1>7, <1>8 DEF Next, Continue, Unanswered

\* What the accounts of identity k consist of stays the same.
LEMMA SameAccounts ==
  ASSUME NEW k \in Keys, Accounted(k), Early(k) => Early(k)',
         failures'[k] = failures[k], ttl'[k] = ttl[k], guesses'[k] = guesses[k]
  PROVE  Accounted(k)'
BY DEF Accounted

\* An identity without guesses and without a counter is accounted for.
LEMMA NothingToAccount ==
  ASSUME NEW k \in Keys, failures'[k] = 0, ttl'[k] = 0, guesses'[k] = NoGuesses
  PROVE  Accounted(k)'
BY SlotsCounted, ConfigAssumption DEF Accounted, NoGuesses

\* A refused password is counted, and opens a window when none is running.
LEMMA RefusalAccounted ==
  ASSUME LoginTypeOK, NEW k \in Keys, Accounted(k), Early(k) => Early(k)',
         failures'[k] = failures[k] + 1,
         ttl'[k] = ExpireNX(k), guesses'[k] = OneMore(guesses[k])
  PROVE  Accounted(k)'
<1>0. /\ failures[k] \in Nat /\ failures'[k] = failures[k] + 1
      /\ MaxAttempts \in Nat \ {0} /\ Cardinality(Requests) \in Nat \ {0}
  BY ConfigAssumption, SlotsCounted DEF LoginTypeOK, TypeOK
<1>1. /\ ttl[k] \in 0 .. LockoutSeconds /\ LockoutSeconds \in Nat \ {0}
      /\ guesses[k] \in [0 .. LockoutSeconds -> Nat]
  BY ConfigAssumption DEF LoginTypeOK, TypeOK
<1>2. \A n \in 0 .. LockoutSeconds : guesses'[k][n] = IF n = 0 THEN 0 ELSE guesses[k][n] + 1
  BY DEF OneMore
<1>3. ASSUME NEW n \in 0 .. LockoutSeconds
      PROVE  guesses'[k][n] <= failures'[k] + MaxAttempts - 2 + Cardinality(Requests)
  <2>1. guesses'[k][n] = 0 \/ guesses'[k][n] = guesses[k][n] + 1
    BY <1>2
  <2>2. guesses[k][n] \in Nat
    BY <1>1
  <2>3. guesses[k][n] <= failures[k] + MaxAttempts - 2 + Cardinality(Requests)
    BY DEF Accounted
  <2> QED BY <1>0, <2>1, <2>2, <2>3
<1>4. ASSUME NEW n \in 0 .. LockoutSeconds - ttl'[k]
      PROVE  guesses'[k][n] < failures'[k] \/ (Early(k)' /\ guesses'[k][n] = failures'[k])
  <2>1. CASE n = 0
    <3>1. guesses'[k][n] = 0
      BY <1>1, <1>2, <2>1
    <3> QED BY <1>0, <3>1
  <2>2. CASE n # 0
    <3>1. ttl[k] > 0 /\ ttl'[k] = ttl[k] /\ n \in 0 .. LockoutSeconds
      BY <1>1, <2>2 DEF ExpireNX
    <3>2. guesses[k][n] < failures[k] \/ (Early(k) /\ guesses[k][n] = failures[k])
      BY <1>1, <3>1 DEF Accounted
    <3>3. guesses'[k][n] = guesses[k][n] + 1 /\ guesses[k][n] \in Nat
      BY <1>1, <1>2, <2>2, <3>1
    <3>4. CASE guesses[k][n] < failures[k]
      BY <1>0, <3>3, <3>4
    <3>5. CASE Early(k)' /\ guesses[k][n] = failures[k]
      BY <1>0, <3>3, <3>5
    <3> QED BY <3>2, <3>4, <3>5
  <2> QED BY <2>1, <2>2
<1>5. guesses'[k][0] = 0
  BY <1>1, <1>2
<1> QED BY <1>3, <1>4, <1>5 DEF Accounted

\* A count that is repeated may open a window too, of a lower budget: whoever
\* repeats it is not pending.
LEMMA RepeatAccounted ==
  ASSUME LoginTypeOK, TypeOK', NEW r \in Requests, NEW k \in Keys, Accounted(k), Early(k) => Early(k)',
         at[r] = "repeat", at'[r] # "verify", count'[k] = count[k] + 1, failures'[k] = failures[k],
         ttl'[k] = ExpireNX(k), guesses'[k] = guesses[k]
  PROVE  Accounted(k)'
<1>1. /\ ttl[k] \in 0 .. LockoutSeconds /\ LockoutSeconds \in Nat \ {0}
      /\ failures[k] \in Nat /\ count[k] \in Nat /\ failures[k] <= count[k]
      /\ count[k] = 0 <=> ttl[k] = 0
      /\ MaxAttempts \in Nat \ {0} /\ Cardinality(Requests) \in Nat \ {0}
  BY ConfigAssumption, SlotsCounted DEF LoginTypeOK, TypeOK
<1>2. CASE ttl[k] > 0
  <2>1. ttl'[k] = ttl[k]
    BY <1>1, <1>2 DEF ExpireNX
  <2> QED BY <2>1, SameAccounts
<1>3. CASE ttl[k] = 0
  <2>1. failures[k] = 0 /\ count'[k] = 1 /\ ttl'[k] = LockoutSeconds
    BY <1>1, <1>3 DEF ExpireNX
  <2>2. Cardinality(Pending(k)') <= Cardinality(Requests) - 1
    <3>1. Pending(k)' \subseteq Requests \ {r}
      BY DEF Pending
    <3>2. IsFiniteSet(Requests \ {r}) /\ Cardinality(Requests \ {r}) = Cardinality(Requests) - 1
      BY RequestsAssumption, FS_RemoveElement
    <3> QED BY <3>1, <3>2, FS_Subset
  <2>3. Cardinality(Pending(k)') \in Nat
    BY PendingFiniteNext
  <2>4. Early(k)'
    BY <1>1, <2>1, <2>2, <2>3 DEF Early
  <2>5. \A n \in 0 .. LockoutSeconds - ttl'[k] : n = 0
    BY <1>1, <2>1
  <2>6. guesses[k][0] = failures[k]
    BY <2>1 DEF Accounted
  <2> QED BY <2>4, <2>5, <2>6 DEF Accounted
<1> QED BY <1>1, <1>2, <1>3

\* A lockout that starts makes the window new: nothing is that recent.
LEMMA LockoutAccounted ==
  ASSUME LoginTypeOK, NEW k \in Keys, Accounted(k), Early(k) => Early(k)',
         failures'[k] = failures[k], ttl'[k] = LockoutTtl(k), guesses'[k] = guesses[k]
  PROVE  Accounted(k)'
<1>1. /\ count[k] \in Nat /\ ttl[k] \in 0 .. LockoutSeconds /\ LockoutSeconds \in Nat \ {0}
      /\ count[k] = 0 <=> ttl[k] = 0
  BY ConfigAssumption DEF LoginTypeOK, TypeOK
<1>2. ASSUME ttl'[k] > 0, NEW n \in 0 .. LockoutSeconds - ttl'[k]
      PROVE  guesses[k][n] < failures[k] \/ (Early(k)' /\ guesses[k][n] = failures[k])
  <2>1. n = 0 /\ ttl[k] > 0
    BY <1>1, <1>2 DEF LockoutTtl
  <2> QED BY <1>1, <2>1 DEF Accounted
<1> QED BY <1>2 DEF Accounted

\* When the window of an identity closes, what was refused in it is below its
\* budget, and what was refused before is older than the lockout.
LEMMA TickAccounted ==
  ASSUME LoginTypeOK, FailuresBounded, NEW k \in Keys, Accounted(k),
         ttl[k] # 1 /\ Early(k) => Early(k)',
         failures'[k] = IF ttl[k] = 1 THEN 0 ELSE failures[k],
         ttl'[k] = Minus1(ttl[k]), guesses'[k] = Older(guesses[k])
  PROVE  Accounted(k)'
<1>1. /\ failures[k] \in Nat
      /\ ttl[k] \in 0 .. LockoutSeconds /\ LockoutSeconds \in Nat \ {0}
      /\ guesses[k] \in [0 .. LockoutSeconds -> Nat]
      /\ MaxAttempts \in Nat \ {0} /\ Cardinality(Requests) \in Nat \ {0}
  BY ConfigAssumption, SlotsCounted DEF LoginTypeOK, TypeOK
<1>2. \A n \in 0 .. LockoutSeconds : guesses'[k][n] = IF n = 0 THEN 0 ELSE guesses[k][n - 1]
  BY DEF Older
<1>3. ASSUME ttl'[k] > 0, NEW n \in 0 .. LockoutSeconds - ttl'[k]
      PROVE  guesses'[k][n] < failures'[k] \/ (Early(k)' /\ guesses'[k][n] = failures'[k])
  <2>1. /\ ttl[k] > 1 /\ ttl'[k] = ttl[k] - 1 /\ failures'[k] = failures[k]
        /\ n \in 0 .. LockoutSeconds
    BY <1>1, <1>3 DEF Minus1
  <2> DEFINE m == IF n = 0 THEN 0 ELSE n - 1
  <2>2. m \in 0 .. LockoutSeconds - ttl[k]
    <3>1. n \in Int /\ 0 <= n /\ n <= LockoutSeconds - (ttl[k] - 1) /\ ttl[k] \in Int /\ LockoutSeconds \in Int
      BY <1>1, <1>3, <2>1
    <3>2. ttl[k] <= LockoutSeconds
      BY <1>1
    <3> QED BY <3>1, <3>2
  <2>3. guesses'[k][n] = guesses[k][m]
    BY <1>2, <2>1 DEF Accounted
  <2> HIDE DEF m
  <2>4. guesses[k][m] < failures[k] \/ (Early(k) /\ guesses[k][m] = failures[k])
    <3>1. ttl[k] > 0
      BY <1>1, <2>1
    <3> QED BY <2>2, <3>1 DEF Accounted
  <2>5. guesses'[k][n] < failures'[k] <=> guesses[k][m] < failures[k]
    BY <2>1, <2>3
  <2>6. Early(k) => Early(k)'
    BY <1>1, <2>1
  <2> QED BY <2>1, <2>3, <2>4, <2>5, <2>6
<1>4. ASSUME NEW n \in 0 .. LockoutSeconds
      PROVE  guesses'[k][n] <= failures'[k] + MaxAttempts - 2 + Cardinality(Requests)
  <2>1. CASE n = 0
    <3>1. guesses'[k][n] = 0 /\ failures'[k] \in Nat
      BY <1>1, <1>2, <2>1
    <3> QED BY <1>1, <3>1
  <2>2. CASE n # 0 /\ ttl[k] # 1
    <3>1. guesses'[k][n] = guesses[k][n - 1] /\ failures'[k] = failures[k] /\ n - 1 \in 0 .. LockoutSeconds
      BY <1>1, <1>2, <2>2
    <3> QED BY <3>1 DEF Accounted
  <2>3. CASE n # 0 /\ ttl[k] = 1
    <3>1. /\ guesses'[k][n] = guesses[k][n - 1] /\ failures'[k] = 0
          /\ n - 1 \in 0 .. LockoutSeconds - ttl[k] /\ n - 1 \in 0 .. LockoutSeconds
      <4>1. guesses'[k][n] = guesses[k][n - 1] /\ failures'[k] = 0
        BY <1>2, <2>3
      <4>2. n - 1 \in 0 .. LockoutSeconds - 1 /\ n - 1 \in 0 .. LockoutSeconds
        BY <1>1, <2>3
      <4> QED BY <2>3, <4>1, <4>2
    <3>2. guesses[k][n - 1] < failures[k] \/ (Early(k) /\ guesses[k][n - 1] = failures[k])
      BY <1>1, <2>3, <3>1 DEF Accounted
    <3>3. guesses[k][n - 1] \in Nat
      BY <1>1, <3>1
    <3>4. CASE guesses[k][n - 1] < failures[k]
      <4>1. failures[k] <= MaxAttempts - 1 + Cardinality(Requests)
        BY FailuresWithinBudget DEF LoginTypeOK
      <4>2. guesses'[k][n] = guesses[k][n - 1] /\ failures'[k] = 0
        BY <3>1
      <4>3. guesses[k][n - 1] <= MaxAttempts - 2 + Cardinality(Requests)
        <5> DEFINE g == guesses[k][n - 1]
                   l == failures[k]
                   c == Cardinality(Requests)
        <5>1. g \in Nat /\ l \in Nat /\ MaxAttempts \in Nat /\ c \in Nat
          BY <1>1, <3>3
        <5>2. g < l /\ l <= MaxAttempts - 1 + c
          BY <3>4, <4>1
        <5> HIDE DEF g, l, c
        <5>3. g <= MaxAttempts - 2 + c
          BY <5>1, <5>2
        <5> QED BY <5>3 DEF g, c
      <4> QED BY <1>1, <3>3, <4>2, <4>3
    <3>5. CASE Early(k) /\ guesses[k][n - 1] = failures[k]
      <4>1. failures[k] + Cardinality(Pending(k)) <= MaxAttempts - 2 + Cardinality(Requests)
        BY <3>5 DEF Early
      <4>2. Cardinality(Pending(k)) \in Nat
        BY PendingFinite
      <4>3. guesses'[k][n] = failures[k] /\ failures'[k] = 0
        BY <3>1, <3>5
      <4> QED BY <1>1, <4>1, <4>2, <4>3
    <3> QED BY <3>2, <3>4, <3>5
  <2> QED BY <2>1, <2>2, <2>3
<1>5. guesses'[k][0] = 0
  BY <1>1, <1>2
<1> QED BY <1>3, <1>4, <1>5 DEF Accounted

\* A snapshot without the counter of an identity is a success to the history.
LEMMA RestartAccounted ==
  ASSUME LoginTypeOK, NEW k \in Keys, Accounted(k), RedisForgets,
         count'[k] = count[k] /\ Early(k) => Early(k)'
  PROVE  Accounted(k)'
<1>1. PICK lost \in SUBSET Keys :
        /\ count' = [j \in Keys |-> IF j \in lost THEN 0 ELSE count[j]]
        /\ ttl' = [j \in Keys |-> IF j \in lost THEN 0 ELSE ttl[j]]
        /\ failures' = [j \in Keys |-> IF j \in lost THEN 0 ELSE failures[j]]
  BY DEF RedisForgets, RedisRestart
<1>2. /\ count[k] \in Nat /\ (count[k] = 0 <=> ttl[k] = 0)
      /\ failures[k] \in Nat /\ failures[k] <= count[k]
  BY DEF LoginTypeOK, TypeOK
<1>3. guesses'[k] = IF count'[k] < count[k] THEN NoGuesses ELSE guesses[k]
  BY DEF RedisForgets
<1>4. CASE k \in lost /\ count[k] # 0
  <2>1. failures'[k] = 0 /\ ttl'[k] = 0 /\ guesses'[k] = NoGuesses
    BY <1>1, <1>2, <1>3, <1>4
  <2> QED BY <2>1, NothingToAccount
<1>5. CASE ~(k \in lost /\ count[k] # 0)
  <2>1. count'[k] = count[k] /\ ttl'[k] = ttl[k] /\ failures'[k] = failures[k]
    BY <1>1, <1>2, <1>5
  <2>2. guesses'[k] = guesses[k]
    BY <1>2, <1>3, <2>1
  <2> QED BY <2>1, <2>2, SameAccounts
<1> QED BY <1>4, <1>5

\* Every identity stays accounted for.
LEMMA AccountedStep ==
  ASSUME LoginTypeOK, FailuresBounded, [LoginNext]_loginVars, NEW k \in Keys, Accounted(k)
  PROVE  Accounted(k)'
<1>0. TypeOK /\ TypeOK' /\ [Next]_vars
  BY ThrottleStep, ThrottleTypeStep DEF LoginTypeOK
<1>10. Early(k) /\ count'[k] >= count[k] => Early(k)'
  BY <1>0, EarlyStays
<1>11. count[k] \in Nat /\ count'[k] \in Nat
  BY <1>0 DEF TypeOK
<1>12. /\ key \in [Requests -> Keys \union {None}]
       /\ count \in [Keys -> Nat] /\ ttl \in [Keys -> 0 .. LockoutSeconds] /\ failures \in [Keys -> Nat]
       /\ guesses \in [Keys -> [0 .. LockoutSeconds -> Nat]] /\ at \in [Requests -> Places]
  BY DEF LoginTypeOK, TypeOK
<1>1. ASSUME NEW r \in Requests, CountFailure(r) \/ CountUnanswered(r) PROVE Accounted(k)'
  <2>1. Increment(r) /\ Guessed(r) /\ at'[r] # "verify"
    BY <1>1, <1>12 DEF CountFailure, CountIt, RecordFailure, CountUnanswered, RecordUnanswered, Increment,
      Answer, Goto
  <2>2. CASE key[r] = k /\ at[r] = "verify"
    <3>1. /\ failures'[k] = failures[k] + 1 /\ count'[k] = count[k] + 1
          /\ ttl'[k] = ExpireNX(k) /\ guesses'[k] = OneMore(guesses[k])
      BY <2>1, <2>2, <1>12 DEF Increment, Guessed
    <3> QED BY <1>10, <1>11, <3>1, RefusalAccounted
  <2>3. CASE key[r] = k /\ at[r] # "verify"
    <3>1. /\ failures'[k] = failures[k] /\ count'[k] = count[k] + 1 /\ at[r] = "repeat"
          /\ ttl'[k] = ExpireNX(k) /\ guesses'[k] = guesses[k]
      BY <2>1, <2>3, <1>12 DEF Increment, Guessed
    <3> QED BY <1>0, <1>10, <1>11, <2>1, <3>1, RepeatAccounted
  <2>4. CASE key[r] # k
    <3>1. /\ failures'[k] = failures[k] /\ count'[k] = count[k]
          /\ ttl'[k] = ttl[k] /\ guesses'[k] = guesses[k]
      BY <2>1, <2>4, <1>12 DEF Increment, Guessed
    <3> QED BY <1>10, <1>11, <3>1, SameAccounts
  <2> QED BY <2>2, <2>3, <2>4
<1>2. ASSUME NEW r \in Requests, LockOut(r) \/ LockOutUnanswered(r) PROVE Accounted(k)'
  <2>1. Extend(r) /\ UNCHANGED guesses
    BY <1>2 DEF LockOut, StartLockout, LockOutUnanswered, StartUnanswered
  <2>2. count'[k] = count[k] /\ failures'[k] = failures[k] /\ guesses'[k] = guesses[k]
    BY <2>1, <1>12 DEF Extend
  <2>3. CASE key[r] = k
    <3>1. ttl'[k] = LockoutTtl(k)
      BY <2>1, <2>3, <1>12 DEF Extend
    <3> QED BY <1>10, <1>11, <2>2, <3>1, LockoutAccounted
  <2>4. CASE key[r] # k
    <3>1. ttl'[k] = ttl[k]
      BY <2>1, <2>4, <1>12 DEF Extend
    <3> QED BY <1>10, <1>11, <2>2, <3>1, SameAccounts
  <2> QED BY <2>3, <2>4
<1>3. ASSUME NEW r \in Requests, PasswordRight(r) \/ ClearUnanswered(r) PROVE Accounted(k)'
  <2>1. Delete(r) /\ guesses' = [guesses EXCEPT ![key[r]] = NoGuesses]
    BY <1>3 DEF PasswordRight, ClearCounter, Reset, ClearUnanswered, ResetUnanswered
  <2>2. CASE key[r] = k
    <3>1. failures'[k] = 0 /\ ttl'[k] = 0 /\ guesses'[k] = NoGuesses
      BY <2>1, <2>2, <1>12 DEF Delete
    <3> QED BY <3>1, NothingToAccount
  <2>3. CASE key[r] # k
    <3>1. /\ failures'[k] = failures[k] /\ count'[k] = count[k]
          /\ ttl'[k] = ttl[k] /\ guesses'[k] = guesses[k]
      BY <2>1, <2>3, <1>12 DEF Delete
    <3> QED BY <1>10, <1>11, <3>1, SameAccounts
  <2> QED BY <2>2, <2>3
<1>4. CASE RedisTick
  <2>1. /\ failures'[k] = IF ttl[k] = 1 THEN 0 ELSE failures[k]
        /\ count'[k] = IF ttl[k] = 1 THEN 0 ELSE count[k]
        /\ ttl'[k] = Minus1(ttl[k]) /\ guesses'[k] = Older(guesses[k])
    BY <1>4, <1>12 DEF RedisTick, Tick
  <2>2. ttl[k] # 1 /\ Early(k) => Early(k)'
    BY <1>10, <1>11, <2>1
  <2> QED BY <2>1, <2>2, TickAccounted
<1>5. CASE RedisForgets
  BY <1>5, <1>10, <1>11, RestartAccounted
<1>6. ASSUME UNCHANGED <<count, ttl, failures, guesses>> PROVE Accounted(k)'
  BY <1>6, <1>10, <1>11, SameAccounts
<1>7. ASSUME NEW r \in Requests,
             \/ \E a \in Attempts : Check(r, a)
             \/ FindUser(r) \/ FindNobody(r) \/ PasswordWrong(r) \/ MarkLoggedIn(r) \/ TokenStep(r)
             \/ \E f \in Families, t \in Tokens : IssueSession(r, f, t)
      PROVE  UNCHANGED <<count, ttl, failures, guesses>>
  BY <1>7 DEF Check, AssertNotLocked, FindUser, FindNobody, PasswordWrong,
    MarkLoggedIn, TokenStep, IssueSession, throttleVars, vars
<1>8. ASSUME NEW r \in Requests, Die(r) PROVE UNCHANGED <<count, ttl, failures, guesses>>
  BY <1>8 DEF Die, Fail, throttleVars, vars
<1>9. ASSUME Elsewhere \/ UNCHANGED loginVars PROVE UNCHANGED <<count, ttl, failures, guesses>>
  BY <1>9 DEF Elsewhere, loginVars, throttleVars, vars
<1> QED BY <1>1, <1>2, <1>3, <1>4, <1>5, <1>6, <1>7, <1>8, <1>9 DEF LoginNext

\* Whenever one looks, the passwords refused for an identity during the last
\* LockoutSeconds fit into two windows, each with what concurrency can add to
\* it: for any number of requests, any threshold and any length of the lockout,
\* whatever lockout could not be started and whatever count was repeated.
THEOREM GuessingRate == LoginSpec => []GuessesBounded
<1> DEFINE AllAccounted == \A k \in Keys : Accounted(k)
<1>1. LoginInit => AllAccounted
  <2> SUFFICES ASSUME LoginInit, NEW k \in Keys PROVE Accounted(k)
    OBVIOUS
  <2>1. failures[k] = 0 /\ ttl[k] = 0 /\ guesses[k] = NoGuesses
    BY DEF LoginInit, Init
  <2> QED BY <2>1, SlotsCounted, ConfigAssumption DEF Accounted, NoGuesses
<1>2. LoginTypeOK /\ FailuresBounded /\ AllAccounted /\ [LoginNext]_loginVars => AllAccounted'
  BY AccountedStep
<1>3. LoginTypeOK /\ FailuresBounded /\ AllAccounted => GuessesBounded
  <2> SUFFICES ASSUME LoginTypeOK, FailuresBounded, NEW k \in Keys, Accounted(k)
               PROVE  guesses[k][LockoutSeconds] <= 2 * (MaxAttempts - 1 + Cardinality(Requests)) - 1
    BY DEF GuessesBounded
  <2>1. guesses[k][LockoutSeconds] <= failures[k] + MaxAttempts - 2 + Cardinality(Requests)
    BY ConfigAssumption DEF Accounted
  <2>2. failures[k] <= MaxAttempts - 1 + Cardinality(Requests)
    BY FailuresWithinBudget DEF LoginTypeOK
  <2>3. guesses[k][LockoutSeconds] \in Nat /\ failures[k] \in Nat
    BY ConfigAssumption DEF LoginTypeOK, TypeOK
  <2> QED BY <2>1, <2>2, <2>3, SlotsCounted, ConfigAssumption
<1> HIDE DEF AllAccounted
<1> QED BY <1>1, <1>2, <1>3, LoginTypeCorrect, ThrottleHolds, PTL DEF LoginSpec

=============================================================================
