-------------------------------- MODULE Login --------------------------------
(***************************************************************************)
(* AuthService.login over the two services it drives, LoginThrottleService *)
(* on Redis and RefreshTokenService on Postgres, with the refreshes and    *)
(* logouts served beside it.  One action is one await: a Redis command, a  *)
(* transaction, or the comparison of the password.  The throttle knows the *)
(* tenant as typed and the e-mail lower-cased; the account is looked up    *)
(* under the e-mail as typed and the tenant as Postgres reads it.  One     *)
(* account may so have several identities, one identity several accounts.  *)
(***************************************************************************)
EXTENDS LoginThrottle

CONSTANTS
  Attempts,   \* what a login may come with: x-tenant-id and e-mail as typed, an IP address
  KeyOf,      \* KeyOf[a]: the identity of attempt a
  Users,      \* accounts of one tenant
  Account,    \* Account[a]: the tenant's account with that e-mail, or None
  Families, Tokens, Lifetime, MaxTime   \* see RefreshTokens

ASSUME AttemptsAssumption ==
  KeyOf \in [Attempts -> Keys] /\ Account \in [Attempts -> Users \union {None}] /\ None \notin Attempts

\* The server serves at least one request at a time.
ASSUME SlotsAssumption == Requests # {}

VARIABLES
  now, active, exp, rows, req, started, spent, ended,   \* see RefreshTokens
  login,    \* login[r]: the await of login that r is at, and its attempt
  guesses   \* history: guesses[k][n]: passwords refused for k in the last n ticks

throttleVars == vars
tokenVars    == <<now, active, exp, rows, req, started, spent, ended>>
loginVars    == <<throttleVars, tokenVars, login, guesses>>

R == INSTANCE RefreshTokens WITH MayFail <- TRUE

ASSUME TokensAssumption ==
  Lifetime \in Nat \ {0} /\ MaxTime \in Nat /\ None \notin Tokens \union R!Row

-----------------------------------------------------------------------------
(* Requests *)

\* What login waits for: the account, bcrypt, the throttle, markLoggedIn, issue.
Steps == {"none", "find", "compare", "refuse", "lockout", "clear", "mark", "issue"}

NoLogin == [step |-> "none", attempt |-> None]

MoveTo(r, step) == login' = [login EXCEPT ![r].step = step]

Leave(r) == login' = [login EXCEPT ![r] = NoLogin]

\* A slot that serves neither a login nor a refresh nor a logout.
Free(r) == login[r] = NoLogin /\ req[r].pc = "idle"

\* What the history keeps of one identity.
NoGuesses == [n \in 0 .. LockoutSeconds |-> 0]

OneMore(h) == [n \in 0 .. LockoutSeconds |-> IF n = 0 THEN 0 ELSE h[n] + 1]

Older(h) == [n \in 0 .. LockoutSeconds |-> IF n = 0 THEN 0 ELSE h[n - 1]]

LoginInit ==
  /\ Init
  /\ R!Init
  /\ login = [r \in Requests |-> NoLogin]
  /\ guesses = [k \in Keys |-> NoGuesses]

-----------------------------------------------------------------------------
(* AuthService.login *)

Check(r, a) ==
  /\ Free(r)
  /\ AssertNotLocked(r, KeyOf[a])
  /\ login' = [login EXCEPT ![r] = [step |-> "find", attempt |-> a]]
  /\ UNCHANGED <<tokenVars, guesses>>

\* What findByEmailWithSecret and isActive let through.
Found(a) == Account[a] \in Users /\ active[Account[a]]

\* Mutant: an account that is not active is let in.
FindAnyUser(r, a) ==
  /\ Account[a] \in Users
  /\ req[r].pc = "idle"
  /\ req' = [req EXCEPT ![r].pc = "login", ![r].usr = Account[a]]
  /\ UNCHANGED <<now, active, exp, rows, started, spent, ended>>

FindActiveUser(r, a) == Found(a) /\ R!LoginFind(r, Account[a])

FindUser(r) ==
  /\ login[r].step = "find"
  /\ FindActiveUser(r, login[r].attempt)
  /\ MoveTo(r, "compare")
  /\ UNCHANGED <<throttleVars, guesses>>

FindNobody(r) ==
  /\ login[r].step = "find"
  /\ ~Found(login[r].attempt)
  /\ MoveTo(r, "refuse")
  /\ UNCHANGED <<throttleVars, tokenVars, guesses>>

\* bcrypt.compare fails: no session will be issued.
PasswordWrong(r) ==
  /\ login[r].step = "compare"
  /\ R!Fail(r)
  /\ MoveTo(r, "refuse")
  /\ UNCHANGED <<throttleVars, guesses>>

\* Mutant: an unknown account is refused without being counted.
CountKnownOnly(r) ==
  IF Account[login[r].attempt] = None THEN Fail(r) ELSE RecordFailure(r)

\* Mutant: INCR is sent without EXPIRE.
CountWithoutWindow(r) ==
  /\ at[r] = "verify"
  /\ count' = [count EXCEPT ![key[r]] = @ + 1]
  /\ Answer(r)
  /\ UNCHANGED <<ttl, lock, failures>>

\* recordFailure up to the answer of MULTI.
CountIt(r) == RecordFailure(r)

\* A refusal enters the history when it is first counted.
Guessed(r) ==
  guesses' = [guesses EXCEPT ![key[r]] = IF at[r] = "verify" THEN OneMore(@) ELSE @]

CountFailure(r) ==
  /\ login[r].step = "refuse"
  /\ CountIt(r)
  /\ Guessed(r)
  /\ IF at'[r] = "idle" THEN Leave(r) ELSE MoveTo(r, "lockout")
  /\ UNCHANGED tokenVars

LockOut(r) ==
  /\ login[r].step = "lockout"
  /\ StartLockout(r)
  /\ Leave(r)
  /\ UNCHANGED <<tokenVars, guesses>>

\* Mutant: login goes on without reset.
NoReset(r) == UNCHANGED throttleVars

ClearCounter(r) == Reset(r)

\* bcrypt.compare succeeds, and the counter is deleted.
PasswordRight(r) ==
  /\ login[r].step \in {"compare", "clear"}
  /\ ClearCounter(r)
  /\ guesses' = [guesses EXCEPT ![key[r]] = NoGuesses]
  /\ MoveTo(r, "mark")
  /\ UNCHANGED tokenVars

\* Redis has carried out a command of login, and will be sent it again.
CountUnanswered(r) ==
  /\ login[r].step = "refuse"
  /\ RecordUnanswered(r)
  /\ Guessed(r)
  /\ UNCHANGED <<tokenVars, login>>

LockOutUnanswered(r) ==
  /\ login[r].step = "lockout"
  /\ StartUnanswered(r)
  /\ UNCHANGED <<tokenVars, login, guesses>>

ClearUnanswered(r) ==
  /\ login[r].step \in {"compare", "clear"}
  /\ ResetUnanswered(r)
  /\ guesses' = [guesses EXCEPT ![key[r]] = NoGuesses]
  /\ MoveTo(r, "clear")
  /\ UNCHANGED tokenVars

\* markLoggedIn; nothing here reads lastLoginAt.
MarkLoggedIn(r) ==
  /\ login[r].step = "mark"
  /\ MoveTo(r, "issue")
  /\ UNCHANGED <<throttleVars, tokenVars, guesses>>

\* issueSession with startFamily; the token is stored by Purge and Create.
IssueSession(r, f, t) ==
  /\ login[r].step = "issue"
  /\ R!Login(r, f, t)
  /\ Leave(r)
  /\ UNCHANGED <<throttleVars, guesses>>

-----------------------------------------------------------------------------
(* AuthService.refresh and logout, and issue *)

TokenStep(r) ==
  /\ login[r] = NoLogin
  /\ \/ \E t \in Tokens : R!RefreshFind(r, t) \/ R!LogoutFind(r, t) \/ R!UserAccepted(r, t)
     \/ R!ClaimWon(r) \/ R!ClaimLost(r) \/ R!UserRefused(r)
     \/ R!Purge(r) \/ R!Create(r) \/ R!RevokeFamily(r)
  /\ UNCHANGED <<throttleVars, login, guesses>>

\* A query, a command or the server fails: the request is over.
Die(r) ==
  /\ ~Free(r)
  /\ IF at[r] = "idle" THEN UNCHANGED throttleVars ELSE Fail(r)
  /\ IF req[r].pc = "idle" THEN UNCHANGED tokenVars ELSE R!Fail(r)
  /\ Leave(r)
  /\ UNCHANGED guesses

\* Redis counts the lockout by its own clock.
RedisTick ==
  /\ Tick
  /\ guesses' = [k \in Keys |-> Older(guesses[k])]
  /\ UNCHANGED <<tokenVars, login>>

RedisForgets ==
  /\ RedisRestart
  /\ guesses' = [k \in Keys |-> IF count'[k] < count[k] THEN NoGuesses ELSE guesses[k]]
  /\ UNCHANGED <<tokenVars, login>>

Elsewhere ==
  /\ R!Tick \/ \E u \in Users : R!SetActive(u)
  /\ UNCHANGED <<throttleVars, login, guesses>>

LoginNext ==
  \/ \E r \in Requests :
       \/ \E a \in Attempts : Check(r, a)
       \/ FindUser(r) \/ FindNobody(r)
       \/ PasswordWrong(r) \/ CountFailure(r) \/ LockOut(r)
       \/ PasswordRight(r) \/ MarkLoggedIn(r)
       \/ CountUnanswered(r) \/ LockOutUnanswered(r) \/ ClearUnanswered(r)
       \/ \E f \in Families, t \in Tokens : IssueSession(r, f, t)
       \/ TokenStep(r)
       \/ Die(r)
  \/ RedisTick \/ RedisForgets
  \/ Elsewhere

LoginSpec == LoginInit /\ [][LoginNext]_loginVars

-----------------------------------------------------------------------------
(* Properties *)

\* Where the throttle stands while login waits for a step.
PlaceIn(step) ==
  CASE step \in {"none", "mark", "issue"} -> {"idle"}
    [] step \in {"find", "compare"}       -> {"verify"}
    [] step = "refuse"                    -> {"verify", "repeat"}
    [] OTHER                              -> {step}

\* Where login and the two services stand in one request fits together.
Fits(r) ==
  LET l == login[r] IN
  /\ l.step = "none" <=> l.attempt = None
  /\ at[r] \in PlaceIn(l.step)
  /\ at[r] # "idle" => key[r] = KeyOf[l.attempt]
  /\ req[r].pc = "login" <=> l.step \in {"compare", "clear", "mark", "issue"}
  /\ l.step \in {"find", "refuse", "lockout"} => req[r].pc = "idle"

\* The throttle works for the identity of the attempt until it has answered, and
\* the session is prepared between the user that was found and the answer.
LoginTypeOK ==
  /\ TypeOK
  /\ R!TypeOK
  /\ login \in [Requests -> [step : Steps, attempt : Attempts \union {None}]]
  /\ guesses \in [Keys -> [0 .. LockoutSeconds -> Nat]]
  /\ \A r \in Requests : Fits(r)

\* The rate of guessing: whenever one looks, at most this many passwords were
\* refused for an identity during the last LockoutSeconds without a successful
\* login, or a loss of the counter, in between.  Two counting windows can meet
\* there, each with the attempts that were past the check, even when no lockout
\* could be started, whichever account or none the attempts are for, and
\* wherever a count is repeated.
GuessesBounded ==
  \A k \in Keys :
    guesses[k][LockoutSeconds] <= 2 * (MaxAttempts - 1 + Cardinality(Requests)) - 1

\* The pieces, driven by login, still behave as they were specified alone.
ImplementsThrottle == Spec
ImplementsTokens   == R!Spec

=============================================================================
