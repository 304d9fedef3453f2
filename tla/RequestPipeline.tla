---------------------------- MODULE RequestPipeline ----------------------------
(***************************************************************************)
(* What a request passes before its handler runs, and how long an access   *)
(* token opens the way: the middleware, the three global guards in the     *)
(* order of AppModule, the validation pipe, the exception filter, and the  *)
(* tokens login and refresh sign from the user's row.  A token carries the *)
(* claims of that row until it expires; nothing in the server remembers    *)
(* it, and a logout does not touch it.  Guards, pipes and filter run       *)
(* without waiting for anything, so a request passes them in one step; its *)
(* handler is modelled elsewhere.                                          *)
(***************************************************************************)
EXTENDS Naturals, Sequences

CONSTANTS
  Users,
  Tokens,    \* places for access tokens that have been issued
  Issuers,   \* places for login and refresh requests on their way to signing
  Lifetime,  \* JWT_EXPIRES_IN, in ticks
  None       \* no token

ASSUME LifetimeAssumption == Lifetime \in Nat \ {0}
ASSUME NoneAssumption == None \notin Tokens /\ None \notin Users

\* The kinds of routes: public (login), authenticated (me), and with
\* @RequirePermissions (users).  Any other path has no handler.
Routes ==
  [
  login |-> [public |-> TRUE,  permission |-> FALSE, validated |-> TRUE],
  me    |-> [public |-> FALSE, permission |-> FALSE, validated |-> FALSE],
  users |-> [public |-> FALSE, permission |-> TRUE,  validated |-> TRUE]]

\* A request: is its JSON well formed, is its body (or id) a valid one, which
\* token does it show, and does x-tenant-id name the token's tenant.
Queries == [wellFormed : BOOLEAN, route : DOMAIN Routes \union {"none"},
            token : Tokens \union {None}, header : {"absent", "own", "other"}, valid : BOOLEAN]

\* How a handler that is reached ends: an answer, an exception of Nest (401,
\* 403, 404, 409, 429), an error of Prisma, or any other error.
Outcomes == {"done", "httpException", "P2002", "P2025", "poolTimeout", "unexpected"}

VARIABLES
  active,     \* active[u]: is_active
  manage,     \* manage[u]: the row's role and permissions satisfy users:manage
  token,      \* token[t]: whose token, with which claim, and the ticks it has left
  issuing,    \* issuing[r]: the row a login or refresh has read, its token not signed
  stale,      \* history: ticks since u was last entitled or being issued a token
  answer      \* history: the request this step answered, how it ended, has it an id

vars == <<active, manage, token, issuing, stale, answer>>

NoToken == [user |-> None, manage |-> FALSE, left |-> 0]
NoAnswer == [query |-> None, outcome |-> "none", status |-> 0, hasId |-> TRUE]

Init ==
  /\ active \in [Users -> BOOLEAN]
  /\ manage \in [Users -> BOOLEAN]
  /\ token = [t \in Tokens |-> NoToken]
  /\ issuing = [r \in Issuers |-> NoToken]
  /\ stale = [u \in Users |-> 0]
  /\ answer = NoAnswer

-----------------------------------------------------------------------------
(* Tokens *)

\* Mutant: a refresh copies the claims of the user's present token.
ClaimKept(u) == manage[u] \/ \E t \in Tokens : token[t].user = u /\ token[t].manage

\* signAccessToken's claims come from the row, on refresh as on login.
Claim(u) == manage[u]

SignedFor == Lifetime

\* login and refresh go on with an active user only.
ReadUser(r, u) ==
  /\ issuing[r] = NoToken
  /\ active[u]
  /\ issuing' = [issuing EXCEPT ![r] = [user |-> u, manage |-> Claim(u), left |-> SignedFor]]
  /\ answer' = NoAnswer
  /\ UNCHANGED <<active, manage, token, stale>>

Sign(r, t) ==
  /\ issuing[r] # NoToken
  /\ token[t].left = 0
  /\ token' = [token EXCEPT ![t] = issuing[r]]
  /\ issuing' = [issuing EXCEPT ![r] = NoToken]
  /\ answer' = NoAnswer
  /\ UNCHANGED <<active, manage, stale>>

Fail(r) ==
  /\ issuing[r] # NoToken
  /\ issuing' = [issuing EXCEPT ![r] = NoToken]
  /\ answer' = NoAnswer
  /\ UNCHANGED <<active, manage, token, stale>>

Entitled(u) == active[u] /\ manage[u]

\* PATCH /users/:id changes what the row entitles to, not what was signed.
UpdateUser(u, a, m) ==
  /\ active' = [active EXCEPT ![u] = a]
  /\ manage' = [manage EXCEPT ![u] = m]
  /\ stale' = [stale EXCEPT ![u] = IF a /\ m THEN 0 ELSE @]
  /\ answer' = NoAnswer
  /\ UNCHANGED <<token, issuing>>

\* One tick of time; stale counts no further than Lifetime + 1.
BeingIssued(u) == \E r \in Issuers : issuing[r].user = u /\ issuing[r].manage

Tick ==
  /\ token' = [t \in Tokens |->
                 IF token[t].left <= 1 THEN NoToken ELSE [token[t] EXCEPT !.left = @ - 1]]
  /\ stale' = [u \in Users |-> IF Entitled(u) \/ BeingIssued(u) THEN 0
                               ELSE IF stale[u] > Lifetime THEN stale[u] ELSE stale[u] + 1]
  /\ answer' = NoAnswer
  /\ UNCHANGED <<active, manage, issuing>>

-----------------------------------------------------------------------------
(* Requests *)

\* Mutant: the tenant is compared before the caller is known.
TenantGuardFirst == <<"body", "requestId", "router", "TenantGuard", "JwtAuthGuard", "PermissionsGuard", "pipe">>

\* Mutant: permissions are looked at before the caller is known.
PermissionsGuardFirst == <<"body", "requestId", "router", "PermissionsGuard", "JwtAuthGuard", "TenantGuard", "pipe">>

\* Mutant: the middleware is bound to the routes there are.
RouterFirst == <<"body", "router", "requestId", "JwtAuthGuard", "TenantGuard", "PermissionsGuard", "pipe">>

\* What a request passes, in order.  The body parser is the platform's and
\* comes before the application's middleware.
Stages == <<"body", "requestId", "router", "JwtAuthGuard", "TenantGuard", "PermissionsGuard", "pipe">>

Verifies(t) == t # None /\ token[t].left > 0

Public(q) == q.route \in DOMAIN Routes /\ Routes[q.route].public
Restricted(q) == q.route \in DOMAIN Routes /\ Routes[q.route].permission
Validated(q) == q.route \in DOMAIN Routes /\ Routes[q.route].validated

\* req.user is set by JwtAuthGuard, for the stages after it.
HasUser(q, n) == Verifies(q.token) /\ \E k \in 1 .. n - 1 : Stages[k] = "JwtAuthGuard"

\* Does stage n refuse the request, and with which status.
RefusedBy(q, n) ==
  CASE Stages[n] = "body" -> ~q.wellFormed
    [] Stages[n] = "router" -> q.route \notin DOMAIN Routes
    [] Stages[n] = "JwtAuthGuard" -> ~Public(q) /\ ~Verifies(q.token)
    [] Stages[n] = "TenantGuard" -> ~Public(q) /\ HasUser(q, n) /\ q.header # "own"
    [] Stages[n] = "PermissionsGuard" -> Restricted(q) /\ ~(HasUser(q, n) /\ token[q.token].manage)
    [] Stages[n] = "pipe" -> Validated(q) /\ ~q.valid
    [] OTHER -> FALSE

RefusalStatus(q, n) ==
  CASE Stages[n] \in {"body", "pipe"} -> 400
    [] Stages[n] = "router" -> 404
    [] Stages[n] = "JwtAuthGuard" -> 401
    [] Stages[n] = "TenantGuard" -> IF q.header = "absent" THEN 400 ELSE 403
    [] OTHER -> 403

Handled(q) == \A n \in DOMAIN Stages : ~RefusedBy(q, n)

\* resolve and mapPrismaError; 409 stands for the statuses of Nest's exceptions.
OutcomeStatus(outcome) ==
  CASE outcome = "done" -> 200
    [] outcome \in {"httpException", "P2002"} -> 409
    [] outcome = "P2025" -> 404
    [] outcome = "poolTimeout" -> 400
    [] OTHER -> 500

Answer(q, outcome, status, hasId) ==
  /\ answer' = [query |-> q, outcome |-> outcome, status |-> status, hasId |-> hasId]
  /\ UNCHANGED <<active, manage, token, issuing, stale>>

\* A request that reaches its handler.
Handle(q, outcome) ==
  /\ answer = NoAnswer  \* answers are looked at one at a time
  /\ Handled(q)
  /\ Answer(q, outcome, OutcomeStatus(outcome), TRUE)

\* A request that is refused: the first stage that does decides the status,
\* and the answer has an id when RequestIdMiddleware came before it.
Refuse(q, n) ==
  /\ answer = NoAnswer
  /\ RefusedBy(q, n)
  /\ \A k \in 1 .. n - 1 : ~RefusedBy(q, k)
  /\ Answer(q, "refused", RefusalStatus(q, n), \E k \in 1 .. n - 1 : Stages[k] = "requestId")

Next ==
  \/ \E r \in Issuers : Fail(r) \/ (\E u \in Users : ReadUser(r, u)) \/ \E t \in Tokens : Sign(r, t)
  \/ \E u \in Users : \E a, m \in BOOLEAN : UpdateUser(u, a, m)
  \/ Tick
  \/ \E q \in Queries : (\E outcome \in Outcomes : Handle(q, outcome)) \/ \E n \in DOMAIN Stages : Refuse(q, n)

Spec == Init /\ [][Next]_vars

-----------------------------------------------------------------------------
(* Properties *)

Slots == [user : Users \union {None}, manage : BOOLEAN, left : 0 .. Lifetime]

\* The shape of the state; a token that has time left belongs to a user.
TypeOK ==
  /\ active \in [Users -> BOOLEAN]
  /\ manage \in [Users -> BOOLEAN]
  /\ token \in [Tokens -> Slots]
  /\ \A t \in Tokens : token[t].user \in Users \/ token[t] = NoToken
  /\ issuing \in [Issuers -> Slots]
  /\ \A r \in Issuers : issuing[r] = NoToken \/ (issuing[r].user \in Users /\ issuing[r].left = Lifetime)
  /\ stale \in [Users -> 0 .. Lifetime + 1]

\* The handler of a route that is not public has been reached in this step.
Admitted == answer.outcome \in Outcomes /\ ~Public(answer.query)

\* The right to manage users ends at the latest one token lifetime after it was
\* taken from the row and the logins and refreshes that had read it are over.
StaleRightEnds ==
  Admitted /\ Restricted(answer.query) => stale[token[answer.query.token].user] <= Lifetime

\* Whoever shows no valid token learns nothing about a protected route: 401,
\* whatever the tenant header, the body or the id in the path.
StrangersLearnNothing ==
  LET q == answer.query IN
  answer # NoAnswer /\ q.wellFormed /\ q.route \in {"me", "users"} /\ ~Verifies(q.token)
    => answer.status = 401

\* No request works for another tenant than its token's: TenantGuard lets a
\* request without a user pass and relies on the guard before it.
NoForeignTenant == Admitted => answer.query.header = "own"

\* An answer carries a request id, also that of the router or a guard; only a
\* body the platform could not read is answered before there is one.
AnswersTraceable == answer # NoAnswer /\ answer.query.wellFormed => answer.hasId

=============================================================================
