# TLA+ models of the hotel CRM backend

Models, model-checking configurations and machine-checked proofs for the NestJS
backend under `src/backend`. The modules describe what the code does, action by
action; the properties say what it must never do, whatever the order in which
concurrent requests, the clock and failures reach the database and Redis.

All paths below are relative to the repository; `auth/`, `users/`, `common/`,
`redis/` and `health/` stand for `backend/src/auth/` and so on.

## 1. The system

One Node.js process (or several) serves HTTP requests. JavaScript runs one piece
of code at a time, so a request is only interrupted at an `await`: at a query to
PostgreSQL, at a command to Redis, at bcrypt and at the signing of a token.
Every database access goes through `TenantPrismaService.withTenant`, which wraps
*one repository method* into *one* transaction (READ COMMITTED, PostgreSQL's
default). Nothing wraps a whole request. So the unit of atomicity is the
repository method, and everything between two of them is where things go wrong.

| Component | State it keeps | Operations | Works with |
|---|---|---|---|
| Refresh tokens (`auth/refresh-token.service.ts`, `auth/refresh-tokens.repository.ts`) | the `refresh_tokens` table: user, family, hash, expiry, `revokedAt` | `issue`, `consume`, `revokeSession`, `revokeFamily`; clean-up of expired rows inside `issue` | AuthService, tenant layer |
| AuthService (`auth/auth.service.ts`) | none | `login`, `refresh`, `logout`, `me` | throttle, users, refresh tokens |
| Login throttle (`auth/login-throttle.service.ts`, `auth/login-attempts.repository.ts`) | a Redis counter with a time to live per (tenant, e-mail, IP) | `assertNotLocked`, `recordFailure`, `reset` | AuthService, Redis |
| Redis service (`redis/redis.service.ts`) | the client | `count`, `incrementWithTtl`, `resetTtl`, `delete`, `ping` | throttle, health |
| Users (`users/users.service.ts`, `users/users.repository.ts`) | the `users` table: role, permissions, isActive | `create`, `update`, `findById`, `findPage`, `countActiveAdmins` | guards in front, AuthService |
| Permissions and guards (`auth/guards`, `auth/permissions.ts`) | the claims of access tokens in circulation | JwtAuthGuard, then TenantGuard, then PermissionsGuard | every route |
| Tenant context and row-level security (`common/tenant`, migrations) | `app.current_tenant_id` on a pooled connection | `withTenant`, `withCurrentTenant`, the policies | every repository |
| HTTP layer (`common/http`) | none | envelope, error mapping, request id, paging | every route |
| Health (`health/`) | none | `check` | PostgreSQL, Redis |
| Schema and seed (`prisma/`) | the tables and indexes; the demo rows | migrations, upserts | users |
| Configuration, logging, bootstrap | the validated configuration | `validateEnv`, boot, the order of middleware and guards | everything |

### What is hard, and what makes each part correct

* **Refresh tokens.** A refresh is three to five transactions: find the row,
  claim it, read the user, delete expired rows, store the next one. Two requests
  may present the same token; a logout or a replay may revoke the family between
  the claim and the store; the request may die between the claim and the store;
  another request's clean-up may delete the row after it was found; the user may
  be deactivated after `isActive` was read. Correct means: one live token *or*
  one request about to store one per family; reuse detection without a gap
  (an exchanged token stays recognisable while it is valid) and without a false
  alarm (nobody loses a session for somebody else's race); deactivation reaches
  open sessions; a detected reuse does revoke.
* **Login throttle.** Check, count and lock are separate Redis commands, the
  counter may expire or be reset between any two, and a command whose answer is lost
  is sent again and may be carried out twice. Correct means: no counter
  without a time to live; the threshold is overrun only by requests already in
  flight; a lockout lasts its full length; a lockout ends.
* **Login.** Seven awaits over Redis, PostgreSQL and bcrypt without anything
  around them; the throttle knows the e-mail in lower case and the tenant as typed,
  the account is looked up under the e-mail as typed and the tenant as PostgreSQL
  reads it. Correct means: each store is used as its own specification says, and the
  rate of guessing is bounded for each identity.
* **Users.** An update is read, perhaps count, then write: two or three
  transactions. Correct means: permissions are those of the present role unless
  set by hand; the last active admin and one's own account are protected.
* **Guards.** The claims in an access token outlive a demotion or a deactivation,
  and two of the guards rely on the one before them. Correct means: a right that
  was taken away ends within a token's lifetime; strangers are told nothing.
* **Tenant layer.** A pooled connection keeps an empty setting after a
  transaction; a query without a tenant must see nothing and raise nothing. One call
  may write several rows (`updateMany`, `deleteMany`), one after the other: they must
  take effect together.
* **Health.** The Redis probe races a timeout, the PostgreSQL probe has none.
* **Configuration.** A value that passes validation may still be of no use to the
  code that reads it, when the first login comes.
* **Paging.** Page and total are two statements with two snapshots, and a walk
  is many requests. Correct means: who was there is listed, a page at a time.
* **Seed.** A list of upserts without a transaction, repeated, overlapped and
  beside a running application; most references have no foreign key.

`PROJECT.json` lists these hazards line by line with the properties that cover
them.

## 2. The modules

| Module | What it is |
|---|---|
| `SessionChain` | abstract specification: what a login session promises |
| `RefreshTokens` | refresh, logout and login's issuing, transaction by transaction; implements `SessionChain` |
| `RefreshTokensProofs` | inductive invariant and theorems; the refinement of `SessionChain` |
| `LoginThrottle` | the throttle, Redis command by Redis command |
| `UserAdmin` | creation and update of users behind PermissionsGuard |
| `UserAdminProofs` | its theorems |
| `HotelStores` | abstract specification: a store of its own for every hotel |
| `TenantAccess` | requests of several tenants on a pool of connections, the tenant setting and the policies; implements `HotelStores` |
| `TenantAccessProofs` | inductive invariant and theorems; the refinement of `HotelStores` |
| `Login` | whole logins: extends `LoginThrottle`, composes it with `RefreshTokens`, and implements both |
| `LoginProofs` | the theorems about the throttle alone; both refinements, what they carry over, and the theorems about logins |
| `RequestPipeline` | middleware, guards, pipe and exception filter; access tokens and their claims |
| `RequestPipelineProofs` | its theorems |
| `Paging` | walks through `GET /users` while users are created |
| `PagingProofs` | its theorems |
| `Service` | the process: environment, validation, boot, the two probes of `GET /health` |
| `ServiceProofs` | its theorems |
| `Seed` | the seed script beside the application |
| `SeedProofs` | its theorems |
| `MC...` | symmetry sets and enumerated inputs for TLC |

Operators whose comment begins with "Mutant" are broken variants of the operator
that follows. No specification uses them; each is there to be put in its place
and to show that a property notices.

### RefreshTokens

| State | In the code |
|---|---|
| `rows[t]` | the row whose `tokenHash` is the hash of `t` (unique index), or `None` |
| `exp[t]` | the `exp` claim of the signed token, 0 before it is signed |
| `req[r]` | the local variables of a request between two awaits, with the place it is at |
| `active[u]` | `users.is_active` |
| `now` | `Date.now()` in ticks |
| `started`, `spent`, `ended` | history, read by properties and by freshness only |

| Action | Code |
|---|---|
| `LoginFind` | `findByEmailWithSecret` returns an active user and the password matches |
| `Login` | after bcrypt, `reset` and `markLoggedIn`: `startFamily`, token signed |
| `RefreshFind` | `consume`: signature and expiry verified, row found and not expired |
| `ClaimWon` / `ClaimLost` | `claim`'s `updateMany where revokedAt is null`, count 1 or 0 |
| `UserAccepted` / `UserRefused` | `findByIdInTenant` and the `isActive` test; then token signed, or `revokeFamily` next |
| `Purge`, `Create` | `deleteExpiredForUser`, `create` in `issue` |
| `LogoutFind` | `revokeSession`: verified and found |
| `RevokeFamily` | the one `updateMany` three code paths end in |
| `Fail` | a query throws or the process stops: what was written stays |
| `SetActive`, `Tick` | an administrator's update; the clock |

An answer that refuses before anything was written (bad signature, unknown
token, wrong password) changes no state and is a stuttering step. `jti` and
family are random UUIDs: a fresh one is one that was never used. The claim does
not look at the expiry again, and logout does not look at the row's expiry: the
model keeps both. Password comparison is part of `LoginFind`, because it depends
on the row just read and on nothing else.

### LoginThrottle

`count[k]` and `ttl[k]` are what Redis holds for identity `k`; both are 0 when
the key is absent. `AssertNotLocked`, `RecordFailure` (MULTI INCR, EXPIRE NX),
`StartLockout` (EXPIRE) and `Reset` (DEL) are one Redis command each.
`RecordUnanswered`, `StartUnanswered` and `ResetUnanswered` are the same commands when
the connection breaks after Redis has carried them out and before it has answered:
ioredis sends them again (`redis/redis.service.ts:15`), so the request stays where it
is and the command is carried out once more, with anything in between. `failures[k]`
is history: how many of the counts that the counter holds are refused logins and not
repetitions. `Tick`
lowers the time to live, and Redis deletes a key whose time runs out. Which of
`RecordFailure` and `Reset` happens stands for the lookup and the password check.
`lock` is history: how long the last lockout still has to run. `RedisRestart`
forgets any set of counters, whatever requests are in progress (a snapshot that is
older than a counter); counters that come *back* are not modelled. Time is relative,
so the state space is finite without a bound on the clock.

### Login

| Action | Code |
|---|---|
| `Check` | `assertNotLocked` for `keyFor(identity)` |
| `FindUser`, `FindNobody` | `findByEmailWithSecret` and `isActive` |
| `PasswordRight` | `bcrypt.compare` succeeds, `reset` |
| `PasswordWrong` | `bcrypt.compare` fails |
| `CountFailure`, `LockOut` | the two commands of `recordFailure`, after either refusal |
| `CountUnanswered`, `LockOutUnanswered`, `ClearUnanswered` | Redis has carried out a command of login, and is sent it again |
| `MarkLoggedIn`, `IssueSession` | `markLoggedIn`; `startFamily` and the signing in `issueSession` |
| `TokenStep` | `refresh`, `logout`, and the two transactions of `issue` |
| `Die` | a query, a command or the process fails: the request is over in both services |
| `RedisTick`, `RedisForgets`, `Elsewhere` | the clocks, Redis, an administrator's update |

The state is that of the two modules together and `login[r]`, the await a login is
at with the attempt it serves. An attempt is an `x-tenant-id` header and an e-mail, both
*as typed*, and an address. `KeyOf` is `keyFor` (`auth/login-attempts.repository.ts:33`):
it lower-cases the e-mail and takes the header as it is (`common/tenant/tenant.middleware.ts:15`).
`Account` is what the query finds: an exact match of the e-mail, in the tenant that
PostgreSQL's `::uuid` makes of the header. So two attempts may have one identity and
different accounts, or one account and different identities; the run has both.
`guesses[k][n]` is history: the passwords refused for identity `k` in the last
`n` ticks; a refusal enters it when it is first counted.
`LoginFind` in `RefreshTokens` stands for the lookup of a login that will succeed; in
`Login` a comparison that fails afterwards abandons it (`R!Fail`).

### RequestPipeline

`active[u]` and `manage[u]` are what a user's row entitles to, `token[t]` an access
token with its claim and the ticks it has left, `issuing[r]` the row that a login or
refresh has read and not signed. `Stages` is the order of `AppModule`, with the
platform's body parser and router where they are; `RefusedBy` is what each stage
refuses. Stages do not wait for anything, so a request is one step: `Handle` when
no stage refuses it, with any way its handler may end, or `Refuse` by the first
stage that does. `OutcomeStatus` is the exception filter; 409 stands for whatever
status a Nest exception carries. `answer` and `stale` are history: what this step
answered, and for how long a user has been without the right.

### Paging

Users are numbered in the order of `(createdAt, id)`. A user is being created from the
moment the row has its `createdAt` until the commit, and commits in any order;
that a new row's `createdAt` is not below the ones before it is an assumption on
the clock. `FindMany` and `Count` are the two statements of `findPage`: Prisma
sends the statements of one transaction over one connection, in the order of the
array. A client asks for the next page exactly when `hasMore` says so, and asks
again when a request fails. Nothing in the code deletes users.

### Service

A variable of the environment is missing, malformed (the schema refuses it), good, or
`unusable`: it passes `envSchema`, and the code that reads it cannot use it. The schema
tests a URL by its beginning and a duration for not being empty, so these may be
unusable; secrets and numbers may not (a number that is too large for Redis or for
`listen` is not modelled). `Start` is a start of the process from *any* environment, with
`validateEnv` and the defaults; a process reads its environment once. `Connect` is the
connection that Prisma opens before `listen` (without Postgres the process aborts; Redis
is not needed), `Login` a login with the right password, which asks Redis first and then
uses every other variable, `Stop` the end of the process with whatever it was doing.
`DIRECT_DATABASE_URL` is for the Prisma CLI only and is left out.

`state[d]` is what dependency `d` does at present: answer, refuse, or stay silent.
`probe[c][d]` is what check `c` knows of it and `left[c]` the timer of the ping.
`Settle` is the end of one of the two promises, `Respond` that of `Promise.all`.
`failed` and `grounds` are history: the variables that made a login throw, and why a
probe came to its end.

### Seed

`Script` is the sequence of upserts of `seedHotel`; `Upsert` is the one a run is at, with
the row it finds or creates and the references it writes; a row's id is the fixed one
or one the application generated. `Exit` is any failure, and a run may be started
again. `AppWrite` is the application's creation or update of a demo user.

### UserAdmin

`users[u]` is a row (role, permissions, isActive), `admitted` the users who hold
an access token that PermissionsGuard lets through to `users:manage` routes,
`req[r]` an update between two of its transactions. `Create` is `POST /users`, whose list of
permissions may hold any strings (`users/dto/create-user.dto.ts:29`), where that of an
update holds permissions only (`users/dto/update-user.dto.ts`);
`UpdateRead`, `UpdateCount` and `UpdateWrite` are the transactions of
`PATCH /users/:id` with the rules between them. An access token is taken as
signed when login or refresh reads the row; since it may outlive any number of
changes to the row, signing it later adds nothing. `req[r].overlapped` is
history: some other update has written since this one's first read. `tuned` is
history: users whose permissions were last sent as a list. Three permissions
stand for the eight, as far as the defaults of the roles tell them apart: one that
only `admin` has, `users:manage`, which opens this API and which staff lacks, and
one that everybody has; `Unlisted` stands for every string that is none.

### TenantAccess

| State | In the code |
|---|---|
| `owner[i]` | `tenant_id` of the committed row with primary key `i`, `None` when there is none |
| `setting[c]` | `app.current_tenant_id` on the pooled connection `c`: a tenant, something that is not a UUID, the empty string, or never made |
| `by[c]`, `pending[c][i]` | the request whose transaction `c` runs, and what it has made of row `i` and not committed |
| `req[r]` | the tenant of the caller's token, the tenant of the context, and where the request is |
| `seen[r]` | history: the rows that the last query of the request found, with their tenants |

`Authenticated` is a route behind TenantGuard, `Public` is login, refresh or
logout. `Begin`, `SetConfig`, the statements (`Read`, `Insert`, `Update`,
`Delete`) and `Commit` are the steps of one `withTenant` call; a request makes as
many calls as it likes. A call writes any number of rows: `updateMany` and `deleteMany`
(`auth/refresh-tokens.repository.ts:67`) come to their rows one after the other, and each
row is a step, with other transactions in between, until one commit. `Rollback` is every
way a transaction fails, a raising policy included. A local setting that ends leaves the empty string, as the
migration `20260812150000_rls_nullif_empty_context` explains, and `Reconnect` makes
a connection whose setting was never made. The tables differ only in their
columns; a row is its primary key and its tenant. An `INSERT`'s primary key is any
unused one. A row written and not committed is locked for other writers and, to
them, has its old value (READ COMMITTED). A query that asks for fewer rows than the
policy lets through is not told apart from one that asks for all of them. A header that
spells the tenant's UUID in another way is the tenant, as it is for the policies.

`HotelStores` is what this is for. A hotel has a set of rows; a request works for one
hotel, is given that hotel's rows with its own changes, and commits all its changes,
of however many rows, at once or loses them. In `ImplementsStores` the store of a hotel
is the rows it owns, a request serves its principal, and what it has written or erased is what its
transaction holds uncommitted. Beginning, making the setting and replacing a
connection are steps that no store sees.

## 3. What is model-checked

| Run | What it asks | Bounds | States |
|---|---|---|---|
| `tokens_safety` | `TypeOK`, `OneTokenPerFamily`, `SpentStaysDetectable`, `AlarmIsJustified`, `DeactivationStopsIssue`, `ImplementsChain` | 3 requests, 3 tokens, 2 families, 1 user, lifetime 1, clock 0..2, failures | 534,000 |
| `tokens_liveness` | `ReuseRevokesFamily` under `FairSpec` | 2 requests, 3 tokens, 1 family, no failures | 109,000 |
| `tokens_revoked` | violation of `EndedFamilyStaysRevoked` | 2 requests, 1 family | - |
| `throttle` | `TypeOK`, `FailuresBounded`, `LockoutRunsFull`; `LockoutEnds` under `FairSpec` | 3 requests, 1 identity, threshold 3, lockout 3 ticks, 2 repeated counts in a counter | 12,000 |
| `login` | `LoginTypeOK`, `GuessesBounded`, `ImplementsThrottle`, `ImplementsTokens` | 2 requests, 1 account, 3 ways to type it with 2 identities, 1 family, 2 tokens, threshold 2, lockout 2, 1 repeated count in a counter, two constraints (below) | 894,000 |
| `users_safety` | `TypeOK`, `PermissionsFollowRole`, `LastAdminKept`, `OwnAccountKept` | 2 updates, 2 users, 7 kinds of `PATCH` body, 3 of `POST` lists | 380,000 |
| `users_admins` | violation of `AnAdminRemains` | as above | - |
| `tenant` | `FailClosed`, `OnlyOwnRows`, `WritesStayHome`, `ImplementsStores` | 2 requests, 2 connections, 2 tenants, 3 rows, any number of them written in a transaction, a malformed and a missing header | 321,000 |
| `pipeline` | `StaleRightEnds`, `StrangersLearnNothing`, `NoForeignTenant`, `AnswersTraceable` | 1 user, 2 tokens, 1 login in progress, lifetime 2, every request | 56,000 |
| `paging` | `TypeOK`, `WalkComplete`, `NextPageNotEmpty`, `RepeatsOnlyAfterCreate` | 6 users, 1 client, pages of 2 | 91,000 |
| `service` | `TypeOK`, `LateFailuresKnown`, `ReportTruthful`; `AnswersDespiteRedis` under `FairSpec` | both URLs, 1 secret, 1 number, 1 duration, each with every value it may have, 2 checks, timeout 2 | 211,000 |
| `seed` | `TypeOK`, `ReferencesResolve`, `DefaultsMatchRole`; `SeedCompletes` under `FairSpec` | 2 runs, 1 hotel, 2 writes of the application | 353,000 |

**Why the bounds are enough.** Three tokens are a login, its refresh and the
refresh of that: the shortest history in which an exchanged token is presented
while its successor's successor is being issued. Two families let one session
disturb another. A lifetime of 1 with a clock up to 2 lets a token expire between
any two queries of a request and be deleted by the clean-up of a second session;
the liveness run uses a lifetime that is not over at the end of the clock, so
that reuse really happens. In the throttle a threshold and a lockout of 3 leave
room for a counter that is below, at and above the threshold in each part of the
window, and two repeated counts for one that reaches it with a single refused login.
Identities do not affect each other in the throttle alone; `login` has two of them.
Two users with two updates are the smallest hotel in which both last admins can go at once; the seven bodies cover every combination of fields that
the rules tell apart. Two connections and two tenants let a connection serve one
tenant after the other while a second transaction is open on the other connection;
three rows let a transaction make one, delete another and leave a third alone, or one
that is not its own; a commit that took effect for a part of its rows is found by the run.

Two logins are enough for one to succeed, fail or die between any two awaits of the
other; two tokens in a family are a session and its refresh (sessions that meet are the
business of `tokens_safety`). Two constraints keep `login` within reach, and leave out
only combinations of things that do not touch each other: refusals are counted for one
identity at a time, while the other is used by logins that are not refused
(`OneCounter`), and once both tokens are signed nothing is counted (`CountersOrRefresh`).
`GuessesBounded` needs two counting windows that meet and requests that were
past the check in both; with a lockout of two ticks the run reaches the bound: one
guess fewer is already violated. Six users in pages of two let a walk begin with
no, some or all pages and see users created before, on and behind the page it
reads; clients do not affect each other. In `RequestPipeline` users do not affect
each other either; two tokens of one user are one that still carries the right and
one that does not. Two runs of the seed on one hotel meet at every statement; hotels
share no row. One secret, one number and one duration stand for their classes, which
the schema and the code treat alike.

The proofs below remove the bounds in every module, except for liveness. Requests,
tokens, families, identities and users are drawn from unordered sets and no property
names one, so symmetry is sound; the runs with a liveness property do not use it.

**Deadlock.** All runs check for it but the two `users_*` runs: a hotel with no active
admin and no valid access token really has no further administrative step, which is
what the second violation below is about.

**Fairness.** `RefreshTokens!FairSpec` asks only that a request that has made its
first query continues, which the event loop and the database drivers provide as
long as the process lives; failures are therefore switched off in that run. Nothing
is assumed about new requests, the clock or administrators. `LoginThrottle!FairSpec`
adds that time passes and that a command which is sent again and again is answered in the
end, and keeps failures on: `LockoutEnds` does not depend on any request finishing. `Service!FairSpec` says that time passes and that the event loop
handles what has arrived: an answer, an error, a timer; not that a dependency ever
answers. The hypothesis of `AnswersDespiteRedis` is that from some moment on Postgres
is not silent; Redis may do what it likes for ever. `Seed!FairSpec` says that a run
makes progress and that somebody starts the script again; the property assumes in its
hypothesis that runs stop failing at some time. The other modules state no liveness.

### What the violation runs show

Each states a sentence of the repository and shows where the code departs from it.

1. **`EndedFamilyStaysRevoked`** (`auth/refresh-token.service.ts:53`). "every later
   Refresh returns 401" (`backend/api/bruno/auth/Logout.yml`), "replaying it
   revokes the whole session chain" (`Refresh.yml`). A refresh that has claimed its
   token and not stored the next one has no live row for `revokeFamily` to match;
   it then stores a live token in the family that was just revoked. What the code
   does guarantee is `SessionChain`: the family still has one token at most.
2. **`AnAdminRemains`** (`users/users.service.ts:123`). "Refuses the edit that would
   leave a hotel with no active admin at all". Two updates that each take one of
   the last two admins away both count two. `LastAdminKept` states, and the
   proof shows, what does hold: one update alone never does it.

### Departures seen while modelling

These are facts of one line each, visible in the definition that models the line; no
run states them. The properties are worded so that they say what does hold beside them.

* The failure that crosses the threshold and the EXPIRE that starts the lockout are two
  commands (`auth/login-throttle.service.ts:34`): when the window ends between them
  nothing is locked, although `login-throttle.service.spec.ts:114` "gives the full
  lockout window when the threshold is crossed".
* "Nobody may [...] change their own role" (`users/users.service.ts:85`) compares the
  body with a row read earlier (`:70`): a body that repeats one's old role undoes a
  change made in between.
* "returns no overlap between consecutive pages"
  (`backend/test/users-crud.e2e-spec.ts:179`): the list is newest first and the offset
  counts from the top (`users/users.repository.ts:58`), so a user created between two
  requests pushes the last row of a page to the next one.
* "Çıkış yapınca token geçersiz kılınır" (the token is invalidated on logout,
  `.docs/Backend_Architecture.md:167`): logout ends the refresh chain
  (`auth/auth.service.ts:92`); the access token opens protected routes until it expires.
* Every Prisma request error but two is answered with 400
  (`common/http/all-exceptions.filter.ts:113`), a timeout of the connection pool (P2024)
  included, where the comment at `:22` promises a generic 500 for unexpected errors.
* "Gives every request an id" (`common/http/request-id.middleware.ts:6`): the body parser
  of the platform comes before the module's middleware (`app.module.ts:59`), so
  malformed JSON is answered without one.
* "so the endpoint can report a partial outage instead of failing outright"
  (`health/health.service.ts:10`): the query to Postgres (`:42`) has no timeout; when it
  is taken and never answered, neither is the check.
* "a missing or malformed variable aborts boot [...] instead of failing deep in runtime"
  (`config/env.validation.ts:5`): a lifetime such as `1 dy` is a string that is not empty
  (`:24`), and `redis://localhost:99999` begins as a URL of Redis does (`:29`); the server
  boots and every login throws. `LateFailuresKnown` says that these are the only ones.
* "how many failed logins are tolerated per tenant+email+IP" (`config/env.validation.ts:30`):
  the key holds `x-tenant-id` as typed (`auth/login-attempts.repository.ts:34`,
  `common/tenant/tenant.middleware.ts:15`), and PostgreSQL reads a UUID in several
  spellings, so each spelling has a budget of its own. `GuessesBounded` is per key.
* The same sentence: a failure whose answer was lost is sent again by ioredis and may count
  twice, so an identity may be locked with fewer refused logins than the threshold.
* Permissions "if omitted, seeded from the role's defaults" (`users/dto/create-user.dto.ts:28`):
  a list that is given to `POST /users` may hold strings that are no permissions (`:31`),
  and `users/users.service.ts:43` stores it; `PATCH` accepts permissions only.

## 4. What is proved

TLAPS checks the following for every value of the constants: any number of
requests, users, tokens, families and identities, any lifetime, threshold and
lockout, and any bodies. The assumptions are the `ASSUME`s of the modules: the
lifetime, the threshold and the lockout are positive, the repeated counts of one
counter are bounded by some number, the sets whose size matters are finite, the bodies have the shape the DTO's validation enforces, and
`None` is not a value (in `Seed`, not an id), there is at least one slot for requests,
and the lists of the seed are sequences.

**RefreshTokens.** `TypeCorrect`, then five results from one inductive invariant,
`IInv`, a conjunction of `TypeOK` and
* `Accounted`: families and tokens in use were drawn before, so a fresh one is
  unrelated to everything; a token being issued is in no row and no other request;
* `ReadRowHolds`: what was read of a row before the claim still describes it;
* `Exclusive`: `OneTokenPerFamily` pair by pair;
* `SpentOK`: an exchanged token is never live, and its row is there while it is valid;
* `LastOfFamily`: a token that was not exchanged and is not live any more was
  the last of its family, wherever it is: in the table or held by a request.

`OneTokenPerFamily` is not inductive: the claim is made on a row read two steps
earlier (hence `ReadRowHolds`), and a new token must not meet an old row (hence
`Accounted`). `AlarmIsJustified` needs `LastOfFamily`, which needs `Exclusive`.
One lemma per action (`LoginKeeps`, ..., `FailKeeps`) keeps each conjunct.
From it: `Rotation`, `ReuseDetectable`, `NoFalseAlarm`. `DeactivationHolds`
is an action property and follows from type correctness alone.

**Refinement**: `Spec => ImplementsChain`. A family's
current token is its live rows, it is being replaced when a request holds the
right to issue, and a token is used once it is signed and no longer held. One
lemma per action shows which step of the chain it is, or that the chain does not
see it. Revoking a family that is being replaced is a step the chain does not
see, which is exactly the first violation above.

**LoginThrottle** (in `LoginProofs`). `ThrottleTypeCorrect` (with "a counter exists
exactly while it has a time to live"), `LockoutIsFull`, and `OvershootBounded`: the
failures counted plus the attempts in flight are less than the threshold plus the
number of request slots, whatever is counted twice. The argument counts: passing the
check takes a slot,
counting gives it back, and the bound is carried by the requests that passed before
the threshold.

**UserAdmin.** `TypeCorrect` (the permissions of a row are any strings); `PermissionsOfRole`, inductive with it;
`AdminKept` and `AccountKept` from an invariant with two more parts, that hold
from an update's checks until another update writes: `AnotherAdmin` (an edit about
to take an active admin away leaves another one) and `SelfAllowed` (an update of
oneself neither switches off nor names another role).

**TenantAccess.** One inductive invariant, of `TypeOK`, `OnlyOwnRows` and
* `Scoped`: a connection's setting is the tenant of the request in scope on it, and
  empty or never made outside a scope;
* `Guarded`: a request with a token works for the token's tenant;
* `WriteAtHome`: an uncommitted write is on a row of its request's tenant, or on no
  row yet, and leaves it so;
* `Locking`: two uncommitted writes are on different rows.

`FailClosed` follows from `Scoped`; reads are isolated by `Scoped` and `Guarded`;
`WritesStayHome` needs all of them, because a write is checked when the statement
runs and takes effect at the commit, after other transactions may have committed:
`Locking` is what keeps `WriteAtHome`. Theorems: `NothingWithoutTenant`,
`ReadsIsolated`, `WritesIsolated`. Type correctness is a theorem here (`TypeCorrect`)
and not asked of the run again.

`StorePerHotel` is the refinement, `Spec => ImplementsStores`. Its middle is
`ViewIsVisible`: in a scope the rows that the policy shows are the store of the hotel
as the request finds it, no fewer and no more, which needs `Scoped` (the policy
compares with the right tenant) and `WriteAtHome` (the transaction's own writes are on
rows of that tenant). `CommitCommits` shows that a commit writes this view, with every row made, changed or
deleted, to the one store and leaves the others; `PendChanges`, with the database's row locks, that no two
requests of a hotel change one row at a time; `EndLeaves` that a request which ends in
any other way leaves nothing. With it, the modules that look at one hotel
(`RefreshTokens`, `LoginThrottle`, `UserAdmin`, `Paging`) look at a store that exists.

**Login.** `ThrottleRefined` and `TokensRefined`: every step of login is a step of the
throttle or leaves it alone, and likewise of the token table, which is shown action by
action and needs no invariant. With them `ThrottleHolds` and `TokensHold` carry over
everything proved of the two modules alone. `LoginTypeCorrect` needs both: the place of
a request in login, in the throttle and in the token table determine each other
(`Fits`).

`GuessingRate` (`Spec => []GuessesBounded`, with `LoginSpec`) needs to know which
counting window each refused password was counted in. `Accounted(k)` says it without
naming windows: as long as the counter exists, the passwords refused since it began
are fewer than the refusals it counts, and over the whole lockout period there are at
most as many as the counter holds now and one full window before it. A failure adds one
to both sides; a tick that deletes the counter turns the running window, which
`FailuresBounded` keeps within its budget, into the one before; a lockout that is
started late only makes the window longer. A window may also be opened by a *repeated*
count, when the counter that held the refusal itself is gone. Then every refusal of the
window may fall into the ticks looked at, one more than otherwise, but one of its counts
is spent on the repetition: `Early` says that such a window has one refusal less to give
(`EarlyStays`), and the bound is the same. That there is a slot for requests at all is
used here: without one the bound would be wrong by one, and the server would not serve.

**RequestPipeline.** One inductive invariant, of `TypeOK` and
* `NothingStale`: who is entitled, or is being issued a token that says so, is not stale;
* `StaleTokenRunsOut`: a token with the claim has no more time left than the staleness of
  its user allows: ticks take from one what they add to the other;
* `AnswerFollows`: an answer is that of the first stage that refuses, or of a handler.

`StaleRightsEnd` follows from the first two; `TenantsApart`,
`StrangersGet401` and `Traceable` from the last one and the order of `Stages`: they fail
as soon as two guards, or the router and the middleware, are swapped. Type correctness
is a theorem here (`TypeCorrect`) and not asked of the run again.

**Paging.** One invariant per client, `ClientInv`: who was there at the beginning and has
not been listed stands behind the page asked for (`Behind`, `BehindRead`), since users
are only ever pushed down; a promised page begins below the total (`Reachable`);
while nobody is created, what was listed stands before the page (`Quiet`). That a page
which begins below the total is not empty needs that every place below the total is
taken, a fact about finite sets of numbers (`PlaceTaken`); that a page is no longer than
the limit (in `TypeCorrect`), that two users have different places (`PlacesDiffer`,
`PageLength`). Theorems: `TypeCorrect`, `WalksComplete`,
`HasMoreKeepsItsWord`, `NoRepeatWithoutCreate`.

**Service.** For any variables of the environment, any number of checks and any timeout.
`LateFailures` from `BootOK`: what a process has validated it keeps until it stops, and
what validation lets through unusable is a duration or a URL (`Validated`); one of
Postgres ends the process before it listens. That no check answers 200 while the URL of
Redis is unusable is `SilentUrl`: the answer of a check lasts longer than the probe it came
from, but not longer than the process. `Truthful` from `Sound`, one check at a
time: a probe and the reason it ended with agree, the timer of a ping that timed out has
run down, and the answer is given when both probes have settled. `TypeCorrect` follows.

**Seed.** For any list of hotels and any number of runs and writes. `ScriptOrdered`: a row
of the script refers only to rows of statements before its own. `TypeOK` is inductive
with `Knows`: a run has the id of every row it has upserted, and it is the id that the
table holds, because a row that exists keeps its id however runs overlap
(`UpsertRow`). `Resolved` and `Defaults` follow from these and the order of the script.

**Only model-checked:** the four liveness properties (`ReuseRevokesFamily`,
`LockoutEnds`, `AnswersDespiteRedis`, `SeedCompletes`), since the prover does not
handle fairness, and the two violations. Each inductive invariant was also
checked as an invariant by TLC on the bounds above before it was proved.

## 5. What is not modelled

* The contents of tokens (signature, `tokenType`, secrets): a token that does not
  verify has no effect. bcrypt: the password matches or it does not.
* Several tenants in `RefreshTokens`, `LoginThrottle` and `UserAdmin`: they look at
  one hotel. `TenantAccess` shows that every hotel has a store of its own. What a
  refinement cannot say is that nothing of another hotel can be told from the outside:
  the primary keys are unique over all hotels, and the pool is shared.
* Single variables of the environment by name: the three classes of entry that
  `envSchema` tells apart are.
* Who owns the tables and which database role connects: the policies are modelled
  as applying (the migrations say `FORCE ROW LEVEL SECURITY`).
* A Redis restart that brings back counters which were deleted: what a snapshot
  holds depends on settings the repository leaves at their defaults. One that forgets
  counters is modelled.
* Uniqueness of e-mail addresses, foreign keys, validation of bodies: enforced by
  the database and the validation pipe, declarative.
* Requests whose URL or body the platform cannot decode, but for malformed JSON.
* The texts of errors, the layout of the envelope, logging and its redaction
  (`config/logger.config.ts`): wording, or the business of the logging library.
* The tables that no code uses yet (calls, webhooks, integrations), and guests,
  conversations and tickets outside the seed: the schema has them, the application
  has no operation on them.
* The version and the uptime in the health answer: copied into it.

## 6. Plan

The components with state are modelled, and every safety property that a run checks is
proved. What is left is proof that says more:

1. That the requests of `RequestPipeline` are those of `TenantAccess`: the header and the
   claim that its guards compare are the ones whose tenant the setting is made from.
2. For `UserAdmin`, an abstract specification of the roster of a hotel, with the two
   ways (the violation and the undone change) in which the code departs from it.
