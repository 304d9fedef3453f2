---------------------------- MODULE RefreshTokens ----------------------------
(***************************************************************************)
(* RefreshTokenService, RefreshTokensRepository and the part of            *)
(* AuthService that uses them.  A request is a process; every call it      *)
(* makes on the database is a transaction of its own (withTenant), so one  *)
(* action is one transaction with the code up to the next await, and other *)
(* requests, the clock and the administrators may come between any two.    *)
(* An answer 401 given before anything was written changes no state and is *)
(* a stuttering step.                                                      *)
(***************************************************************************)
EXTENDS Naturals

CONSTANTS
  Requests,  \* slots for requests being served at one time
  Users,     \* accounts of one tenant
  Families,  \* token families: randomUUID() values, one per login
  Tokens,    \* signed refresh tokens, told apart by their random jti
  Lifetime,  \* JWT_REFRESH_EXPIRES_IN
  MaxTime,   \* bound: the clock stops here
  MayFail,   \* whether a request may die half-way
  None       \* no token, family, user or row

\* A row of the refresh_tokens table.
Row == [user : Users, family : Families, expiresAt : Nat, revoked : BOOLEAN]

ASSUME LifetimeAssumption == Lifetime \in Nat \ {0}
ASSUME MaxTimeAssumption  == MaxTime \in Nat
ASSUME NoneAssumption     == None \notin Tokens /\ None \notin Row

VARIABLES
  now,      \* the clock of the server process
  active,   \* users.is_active
  exp,      \* exp[t]: the expiry claim of t; 0 while t is not signed
  rows,     \* rows[t]: the row with the hash of t, or None
  req,      \* req[r]: where request r stands and what it has read
  started,  \* history: families a login has started
  spent,    \* history: tokens whose claim succeeded
  ended     \* history: families on which a revokeFamily has completed

vars == <<now, active, exp, rows, req, started, spent, ended>>

-----------------------------------------------------------------------------
(* Requests *)

Issuing  == {"purge", "create"}
Holding  == {"user"} \union Issuing          \* owns the right to issue a token
Revoking == {"reuse", "refused", "logout"}   \* about to call revokeFamily

RequestState ==
  [pc  : {"idle", "login", "claim"} \union Holding \union Revoking,
   tok : Tokens \union {None},     \* the token presented
   fam : Families \union {None},
   usr : Users \union {None},
   new : Tokens \union {None}]     \* the token signed, not stored yet

Idle == [pc |-> "idle", tok |-> None, fam |-> None, usr |-> None, new |-> None]

Answer(r) == req' = [req EXCEPT ![r] = Idle]

-----------------------------------------------------------------------------
(* The table *)

Stored(t) == rows[t] # None

\* A row that claim and revokeFamily still match: revokedAt is null.
Live(t) == Stored(t) /\ ~rows[t].revoked

LiveIn(f) == {t \in Tokens : Live(t) /\ rows[t].family = f}

Holders(f) == {r \in Requests : req[r].pc \in Holding /\ req[r].fam = f}

\* What verify and findByHash let through: signed, unexpired, stored.
Presentable(t) == exp[t] > now /\ Stored(t)

Revoke(t) == [rows[t] EXCEPT !.revoked = TRUE]

\* Mutant: revokeFamily matches no row.
RevokeNothing(f) == rows

RevokeAllOf(f) == [t \in Tokens |-> IF t \in LiveIn(f) THEN Revoke(t) ELSE rows[t]]

\* Mutant: the clean-up also deletes the rows of exchanged tokens.
ExpiredOrRevokedRow(t, u) ==
  Stored(t) /\ rows[t].user = u /\ (rows[t].expiresAt < now \/ rows[t].revoked)

ExpiredRow(t, u) == Stored(t) /\ rows[t].user = u /\ rows[t].expiresAt < now

-----------------------------------------------------------------------------

Init ==
  /\ now = 0
  /\ active = [u \in Users |-> TRUE]
  /\ exp = [t \in Tokens |-> 0]
  /\ rows = [t \in Tokens |-> None]
  /\ req = [r \in Requests |-> Idle]
  /\ started = {}
  /\ spent = {}
  /\ ended = {}

\* Mutant: the signed token is not kept for create.
SignUnkept(r, t, f, u, old) ==
  /\ exp[t] = 0
  /\ exp' = [exp EXCEPT ![t] = now + Lifetime]
  /\ req' = [req EXCEPT ![r] =
       [pc |-> "purge", tok |-> old, fam |-> f, usr |-> u, new |-> None]]

\* issue up to its first query: the token of session f is signed for user u.
Sign(r, t, f, u, old) ==
  /\ exp[t] = 0
  /\ exp' = [exp EXCEPT ![t] = now + Lifetime]
  /\ req' = [req EXCEPT ![r] =
       [pc |-> "purge", tok |-> old, fam |-> f, usr |-> u, new |-> t]]

\* Mutant: startFamily may return the family of another session.
AnyFamily(f) == TRUE

\* startFamily: a random UUID.
FreshFamily(f) == f \notin started

\* login: findByEmailWithSecret returns an active user whose password matches.
\* Until the session is issued, login waits for the hash, Redis and markLoggedIn.
LoginFind(r, u) ==
  /\ req[r].pc = "idle"
  /\ active[u]
  /\ req' = [req EXCEPT ![r] = [Idle EXCEPT !.pc = "login", !.usr = u]]
  /\ UNCHANGED <<now, active, exp, rows, started, spent, ended>>

\* login, after those: a new family is started and its first token signed.
Login(r, f, t) ==
  /\ req[r].pc = "login"
  /\ FreshFamily(f)
  /\ started' = started \union {f}
  /\ Sign(r, t, f, req[r].usr, None)
  /\ UNCHANGED <<now, active, rows, spent, ended>>

\* consume, first query.
RefreshFind(r, t) ==
  /\ req[r].pc = "idle"
  /\ Presentable(t)
  /\ req' = [req EXCEPT ![r] = [pc |-> "claim", tok |-> t, fam |-> rows[t].family,
                                usr |-> rows[t].user, new |-> None]]
  /\ UNCHANGED <<now, active, exp, rows, started, spent, ended>>

\* Mutant: the claim matches a row that is revoked already.
ClaimableTwice(t) == Stored(t)

\* Mutant: the claim tests the expiry again.
ClaimableUnexpired(t) == Live(t) /\ exp[t] > now

\* The test the claim makes on the row itself, whatever was read before.
Claimable(t) == Live(t)

ClaimWon(r) ==
  LET t == req[r].tok IN
  /\ req[r].pc = "claim"
  /\ Claimable(t)
  /\ rows' = [rows EXCEPT ![t] = Revoke(t)]
  /\ spent' = spent \union {t}
  /\ req' = [req EXCEPT ![r].pc = "user"]
  /\ UNCHANGED <<now, active, exp, started, ended>>

\* count = 0: the row is revoked or gone; this is taken for a reuse.
ClaimLost(r) ==
  /\ req[r].pc = "claim"
  /\ ~Claimable(req[r].tok)
  /\ req' = [req EXCEPT ![r].pc = "reuse"]
  /\ UNCHANGED <<now, active, exp, rows, started, spent, ended>>

\* Mutant: the user's isActive is not looked at.
AcceptAnyUser(u) == TRUE

\* AuthService.refresh: findByIdInTenant; users are never deleted.
UserIsActive(u) == active[u]

UserAccepted(r, t) ==
  /\ req[r].pc = "user"
  /\ UserIsActive(req[r].usr)
  /\ Sign(r, t, req[r].fam, req[r].usr, req[r].tok)
  /\ UNCHANGED <<now, active, rows, started, spent, ended>>

UserRefused(r) ==
  /\ req[r].pc = "user"
  /\ ~UserIsActive(req[r].usr)
  /\ req' = [req EXCEPT ![r].pc = "refused"]
  /\ UNCHANGED <<now, active, exp, rows, started, spent, ended>>

\* issue: deleteExpiredForUser.
Purge(r) ==
  /\ req[r].pc = "purge"
  /\ rows' = [t \in Tokens |-> IF ExpiredRow(t, req[r].usr) THEN None ELSE rows[t]]
  /\ req' = [req EXCEPT ![r].pc = "create"]
  /\ UNCHANGED <<now, active, exp, started, spent, ended>>

\* issue: create, and the answer with the new pair of tokens.
Create(r) ==
  LET t == req[r].new IN
  /\ req[r].pc = "create"
  /\ rows' = [rows EXCEPT ![t] = [user |-> req[r].usr, family |-> req[r].fam,
                                  expiresAt |-> exp[t], revoked |-> FALSE]]
  /\ Answer(r)
  /\ UNCHANGED <<now, active, exp, started, spent, ended>>

\* revokeSession, first query.
LogoutFind(r, t) ==
  /\ req[r].pc = "idle"
  /\ Presentable(t)
  /\ req' = [req EXCEPT ![r] = [pc |-> "logout", tok |-> t, fam |-> rows[t].family,
                                usr |-> rows[t].user, new |-> None]]
  /\ UNCHANGED <<now, active, exp, rows, started, spent, ended>>

\* revokeFamily, by a reuse (then 401), a refused user (then 401) or a logout.
RevokeFamily(r) ==
  /\ req[r].pc \in Revoking
  /\ rows' = RevokeAllOf(req[r].fam)
  /\ ended' = ended \union {req[r].fam}
  /\ Answer(r)
  /\ UNCHANGED <<now, active, exp, started, spent>>

\* A query throws, or the server stops: the request is over, what it has
\* written stays.
Fail(r) ==
  /\ MayFail
  /\ req[r].pc # "idle"
  /\ Answer(r)
  /\ UNCHANGED <<now, active, exp, rows, started, spent, ended>>

\* UsersService.update by an administrator, seen from here.
SetActive(u) ==
  /\ active' = [active EXCEPT ![u] = ~active[u]]
  /\ UNCHANGED <<now, exp, rows, req, started, spent, ended>>

Tick ==
  /\ now < MaxTime
  /\ now' = now + 1
  /\ UNCHANGED <<active, exp, rows, req, started, spent, ended>>

\* The steps of a request once it has made its first query.
Continue(r) ==
  \/ \E f \in Families, t \in Tokens : Login(r, f, t)
  \/ ClaimWon(r)
  \/ ClaimLost(r)
  \/ \E t \in Tokens : UserAccepted(r, t)
  \/ UserRefused(r)
  \/ Purge(r)
  \/ Create(r)
  \/ RevokeFamily(r)

Next ==
  \/ \E r \in Requests :
       \/ \E u \in Users : LoginFind(r, u)
       \/ \E t \in Tokens : RefreshFind(r, t) \/ LogoutFind(r, t)
       \/ Continue(r)
       \/ Fail(r)
  \/ \E u \in Users : SetActive(u)
  \/ Tick

Spec == Init /\ [][Next]_vars

\* The event loop serves every request it has accepted.
FairSpec == Spec /\ \A r \in Requests : WF_vars(Continue(r))

-----------------------------------------------------------------------------
(* Properties *)

\* A request in the middle of refresh or of issue knows what it works for.
RequestsOK ==
  /\ req \in [Requests -> RequestState]
  /\ \A r \in Requests :
       /\ req[r].pc # "idle" => req[r].usr \in Users
       /\ req[r].pc \notin {"idle", "login"} => req[r].fam \in Families
       /\ req[r].pc \in {"claim", "user", "reuse"} => req[r].tok \in Tokens
       /\ req[r].pc \in Issuing => req[r].new \in Tokens

\* The state has the shape the code gives it (StoredRefreshToken,
\* ConsumedRefreshToken, and what a request holds between two queries).
TypeOK ==
  /\ now \in Nat
  /\ active \in [Users -> BOOLEAN]
  /\ exp \in [Tokens -> Nat]
  /\ rows \in [Tokens -> Row \union {None}]
  /\ RequestsOK
  /\ started \subseteq Families
  /\ spent \subseteq Tokens
  /\ ended \subseteq Families

\* Rotation: however refreshes, logins and logouts interleave, a family never
\* has two live tokens, two requests that will issue one, or one of each.  So
\* a token is exchanged at most once, which claim's updateMany is there for.
OneTokenPerFamily ==
  \A f \in Families :
    /\ \A t1, t2 \in LiveIn(f) : t1 = t2
    /\ \A r1, r2 \in Holders(f) : r1 = r2
    /\ LiveIn(f) = {} \/ Holders(f) = {}

\* A family without a live token and without a request about to issue one.
Over(f) == LiveIn(f) = {} /\ Holders(f) = {}

\* Reuse detection has no gap: as long as a token that was exchanged is not
\* expired, its row is still there and revoked, whatever deleteExpiredForUser
\* and failures have done, so that presenting it again raises the alarm.
SpentStaysDetectable ==
  \A t \in spent : exp[t] > now => Stored(t) /\ ~Live(t)

\* Reuse detection has no false alarm: a request whose claim has failed
\* presented a token that was exchanged before, unless the family is over and
\* the revocation that follows takes nothing from anybody (a token revoked by
\* a logout, or deleted as expired between findByHash and claim).
AlarmIsJustified ==
  \A r \in Requests :
    req[r].pc = "reuse" => req[r].tok \in spent \/ Over(req[r].fam)

\* No request that has already passed the isActive test for user u.
Drained(u) == \A r \in Requests : req[r].pc \in {"login"} \union Issuing => req[r].usr # u

LiveOf(u) == {t \in Tokens : Live(t) /\ rows[t].user = u}

\* Deactivation reaches the sessions that are open: once the requests that had
\* read the user as active are finished, and until the user is activated
\* again, no request passes the test and no token of the user becomes live.
DeactivationStopsIssue ==
  [][\A u \in Users :
       ~active[u] /\ ~active'[u] /\ Drained(u) => Drained(u)' /\ LiveOf(u)' \subseteq LiveOf(u)]_vars

\* A second use of an exchanged token leads to a moment at which its family
\* has no live token (consume revokes the family before it answers).
ReuseRevokesFamily ==
  \A r \in Requests, t \in Tokens, f \in Families :
    (req[r].pc = "claim" /\ req[r].tok = t /\ req[r].fam = f /\ t \in spent) ~> (LiveIn(f) = {})

\* What the API collection and the end-to-end tests say of logout and of a
\* replay: the whole chain is revoked and every later refresh is refused.
\* Refresh.yml: "replaying it revokes the whole session chain";
\* Logout.yml: "every later Refresh returns 401".
EndedFamilyStaysRevoked == \A f \in ended : LiveIn(f) = {}

-----------------------------------------------------------------------------
(* The abstract session chain this implements *)

Chain == INSTANCE SessionChain WITH
  current   <- [f \in Families |-> LiveIn(f)],
  replacing <- {f \in Families : Holders(f) # {}},
  used      <- {t \in Tokens : exp[t] # 0 /\ \A r \in Requests :
                                req[r].pc \in Issuing => req[r].new # t}

\* Every step of the code's requests is a step of the chain or leaves it alone.
ImplementsChain == Chain!Spec

=============================================================================
