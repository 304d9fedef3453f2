---------------------------- MODULE LoginThrottle ----------------------------
(***************************************************************************)
(* LoginThrottleService, LoginAttemptsRepository and the Redis commands    *)
(* they use, driven by AuthService.login.  One action is one Redis command *)
(* (MULTI ... EXEC is one command) with the code up to the next await.     *)
(* Redis keeps, per identity, a counter with a time to live; both are 0    *)
(* when the key is absent.  Time is relative, so it needs no bound.  When a *)
(* connection breaks before a command is answered, ioredis sends it again, *)
(* and Redis may carry it out twice.                                       *)
(***************************************************************************)
EXTENDS Naturals, FiniteSets

CONSTANTS
  Requests,        \* slots for login requests being served at one time
  Keys,            \* identities: x-tenant-id as typed, lower-cased e-mail, IP address
  MaxAttempts,     \* LOGIN_MAX_ATTEMPTS
  LockoutSeconds,  \* LOGIN_LOCKOUT_SECONDS, in ticks
  MaxResends,      \* a bound of the model: repeated counts that one counter holds
  None             \* no identity

ASSUME RequestsAssumption == IsFiniteSet(Requests)
ASSUME ConfigAssumption   == MaxAttempts \in Nat \ {0} /\ LockoutSeconds \in Nat \ {0}
ASSUME ResendsAssumption  == MaxResends \in Nat
ASSUME NoneAssumption     == None \notin Keys

VARIABLES
  count,     \* count[k]: the number Redis holds for k
  ttl,       \* ttl[k]: ticks until Redis deletes the key
  at,        \* at[r]: where login request r stands
  key,       \* key[r]: the identity it is for
  lock,      \* history: ticks that the last lockout started on k still has to run
  failures   \* history: refused logins among the counts that k's counter holds

vars == <<count, ttl, at, key, lock, failures>>

Init ==
  /\ count = [k \in Keys |-> 0]
  /\ ttl = [k \in Keys |-> 0]
  /\ at = [r \in Requests |-> "idle"]
  /\ key = [r \in Requests |-> None]
  /\ lock = [k \in Keys |-> 0]
  /\ failures = [k \in Keys |-> 0]

\* Mutant: the threshold is off by one.
LockedLate(k) == count[k] > MaxAttempts

Locked(k) == count[k] >= MaxAttempts

Goto(r, p, k) == at' = [at EXCEPT ![r] = p] /\ key' = [key EXCEPT ![r] = k]

Answer(r) == Goto(r, "idle", None)

\* assertNotLocked; a locked identity is answered 429 and changes nothing.
AssertNotLocked(r, k) ==
  /\ at[r] = "idle"
  /\ ~Locked(k)
  /\ Goto(r, "verify", k)
  /\ UNCHANGED <<count, ttl, lock, failures>>

\* Mutant: INCR without EXPIRE.
NoExpire(k) == ttl[k]

\* EXPIRE key seconds NX: only a key without a time to live receives one.
ExpireNX(k) == IF ttl[k] = 0 THEN LockoutSeconds ELSE ttl[k]

\* MULTI INCR, EXPIRE NX, for a login that was refused; "repeat" is the place
\* of a request whose refusal has been counted without its hearing so.
Increment(r) ==
  LET k == key[r] IN
  /\ at[r] \in {"verify", "repeat"}
  /\ count' = [count EXCEPT ![k] = count[k] + 1]
  /\ ttl' = [ttl EXCEPT ![k] = ExpireNX(k)]
  /\ failures' = [failures EXCEPT ![k] = IF at[r] = "verify" THEN failures[k] + 1 ELSE failures[k]]
  /\ UNCHANGED lock

\* The user is missing or inactive, or the password is wrong.  The number that
\* comes back decides whether a lockout follows.
RecordFailure(r) ==
  /\ Increment(r)
  /\ IF count[key[r]] + 1 < MaxAttempts THEN Answer(r) ELSE Goto(r, "lockout", key[r])

RecordUnanswered(r) ==
  /\ Increment(r)
  /\ count[key[r]] - failures[key[r]] < MaxResends
  /\ Goto(r, "repeat", key[r])

\* Mutant: the lockout is started with EXPIRE NX, which keeps the old window.
LockoutKeepsWindow(k) == IF count[k] = 0 THEN 0 ELSE ttl[k]

\* EXPIRE key seconds: 0 and no effect when the key is gone.
LockoutTtl(k) == IF count[k] = 0 THEN 0 ELSE LockoutSeconds

\* The window is set to its full length, by a command of its own.
Extend(r) ==
  LET k == key[r] IN
  /\ at[r] = "lockout"
  /\ ttl' = [ttl EXCEPT ![k] = LockoutTtl(k)]
  /\ lock' = [lock EXCEPT ![k] = IF Locked(k) THEN LockoutSeconds ELSE lock[k]]
  /\ UNCHANGED <<count, failures>>

StartLockout(r) == Extend(r) /\ Answer(r)

StartUnanswered(r) == Extend(r) /\ Goto(r, "lockout", key[r])

\* The password is right: the key is deleted.
Delete(r) ==
  LET k == key[r] IN
  /\ at[r] \in {"verify", "clear"}
  /\ count' = [count EXCEPT ![k] = 0]
  /\ ttl' = [ttl EXCEPT ![k] = 0]
  /\ lock' = [lock EXCEPT ![k] = 0]
  /\ failures' = [failures EXCEPT ![k] = 0]

\* reset; login goes on.
Reset(r) == Delete(r) /\ Answer(r)

ResetUnanswered(r) == Delete(r) /\ Goto(r, "clear", key[r])

\* The connection breaks behind a command; to read a counter twice is harmless.
Unanswered(r) == RecordUnanswered(r) \/ StartUnanswered(r) \/ ResetUnanswered(r)

\* A query throws, ioredis gives up, or the server stops: the request is over.
Fail(r) ==
  /\ at[r] # "idle"
  /\ Answer(r)
  /\ UNCHANGED <<count, ttl, lock, failures>>

\* One tick of time: Redis deletes the keys whose time to live runs out.
Minus1(n) == IF n = 0 THEN 0 ELSE n - 1

Tick ==
  /\ count' = [k \in Keys |-> IF ttl[k] = 1 THEN 0 ELSE count[k]]
  /\ ttl' = [k \in Keys |-> Minus1(ttl[k])]
  /\ lock' = [k \in Keys |-> Minus1(lock[k])]
  /\ failures' = [k \in Keys |-> IF ttl[k] = 1 THEN 0 ELSE failures[k]]
  /\ UNCHANGED <<at, key>>

\* Redis restarts from its last snapshot: counters begun since are forgotten.
RedisRestart ==
  \E lost \in SUBSET Keys :
    LET Kept(f) == [k \in Keys |-> IF k \in lost THEN 0 ELSE f[k]] IN
    /\ count' = Kept(count)
    /\ ttl' = Kept(ttl)
    /\ lock' = Kept(lock)
    /\ failures' = Kept(failures)
    /\ UNCHANGED <<at, key>>

Continue(r) == RecordFailure(r) \/ StartLockout(r) \/ Reset(r)

Next ==
  \/ \E r \in Requests : Fail(r) \/ Continue(r) \/ Unanswered(r) \/ \E k \in Keys : AssertNotLocked(r, k)
  \/ Tick
  \/ RedisRestart

Spec == Init /\ [][Next]_vars

\* The event loop serves the requests it has accepted, time passes, and a command
\* that is sent again and again is answered in the end.
FairSpec == Spec /\ WF_vars(Tick) /\ \A r \in Requests : WF_vars(Continue(r))

-----------------------------------------------------------------------------
(* Properties *)

Places == {"idle", "verify", "repeat", "lockout", "clear"}

\* The shape of the state; a counter is present exactly as long as it has a
\* time to live, which incrementWithTtl's transaction is there for.
TypeOK ==
  /\ count \in [Keys -> Nat]
  /\ ttl \in [Keys -> 0 .. LockoutSeconds]
  /\ at \in [Requests -> Places]
  /\ key \in [Requests -> Keys \union {None}]
  /\ \A r \in Requests : at[r] # "idle" => key[r] \in Keys
  /\ lock \in [Keys -> 0 .. LockoutSeconds]
  /\ failures \in [Keys -> Nat]
  /\ \A k \in Keys : (count[k] = 0 <=> ttl[k] = 0) /\ failures[k] <= count[k]

\* Attempts that have passed the check and have not been counted yet.
Pending(k) == {r \in Requests : at[r] = "verify" /\ key[r] = k}

\* The budget of an identity is overrun by concurrency only: the check and the
\* count are apart, so each request served at the same time may add one failure
\* beyond the threshold, and no request more, whatever expires, is forgotten or
\* is counted twice.
FailuresBounded ==
  \A k \in Keys : failures[k] + Cardinality(Pending(k)) <= MaxAttempts - 1 + Cardinality(Requests)

\* A lockout that was started runs its full length: until then the identity is
\* locked, whatever the other requests in flight still count, expire or start,
\* unless one of them turns out to be a successful login (Reset ends the lock)
\* or Redis forgets the counter.
LockoutRunsFull == \A k \in Keys : lock[k] > 0 => Locked(k) /\ ttl[k] >= lock[k]

\* Nobody is locked out for ever, even when failures in flight extend the
\* lockout and requests die between counting a failure and starting it.
LockoutEnds == \A k \in Keys : Locked(k) ~> ~Locked(k)

=============================================================================
