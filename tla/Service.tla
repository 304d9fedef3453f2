-------------------------------- MODULE Service --------------------------------
(***************************************************************************)
(* The process and what it depends on: it is started from an environment,  *)
(* validates it, connects to Postgres (not to Redis) and listens; then the *)
(* dependencies come and go under it and GET /health reports on them.      *)
(* HealthService.check probes both at the same time and answers when both  *)
(* probes have settled; RedisService.ping races its answer with a timer,   *)
(* the query to Postgres has no timer.                                     *)
(***************************************************************************)
EXTENDS Naturals

CONSTANTS
  PostgresUrl, RedisUrl,  \* DATABASE_URL and REDIS_URL: no default
  Secrets,    \* JWT_SECRET, JWT_REFRESH_SECRET: no default
  Numbers,    \* LOGIN_MAX_ATTEMPTS and the like: coerced, with a default
  Durations,  \* JWT_EXPIRES_IN, JWT_REFRESH_EXPIRES_IN: strings, with a default
  Checks,     \* slots for health requests being served
  TimeoutMs   \* the ping's timeout, in ticks

ASSUME TimeoutAssumption == TimeoutMs \in Nat \ {0}

Urls == {PostgresUrl, RedisUrl}

Vars == Urls \union Secrets \union Numbers \union Durations

\* envSchema refuses a malformed value.  A URL it tests by its beginning, a
\* duration for not being empty: such a value may pass and yet be unusable.
Values == {"missing", "malformed", "unusable", "good"}

ValuesOf(v) == IF v \in Urls \union Durations THEN Values ELSE Values \ {"unusable"}

Environments == {e \in [Vars -> Values] : \A v \in Vars : e[v] \in ValuesOf(v)}

Dependencies == {"postgres", "redis"}

VARIABLES
  config,  \* what validateEnv has returned to the process
  phase,   \* where the process stands
  failed,  \* history: variables whose value made a login throw
  state,   \* state[d]: dependency d answers, refuses or is silent
  probe,   \* probe[c][d]: not asked, pending, or what the probe came to
  left,    \* left[c]: ticks until the timer of c's ping fires
  report,  \* report[c]: the status answered
  grounds  \* history: grounds[c][d] is why c's probe of d came to its end

boot   == <<config, phase, failed>>
health == <<probe, left, report, grounds>>
vars   == <<boot, state, health>>

Each(x) == [d \in Dependencies |-> x]

ForAll(x) == [c \in Checks |-> x]

Init ==
  /\ config = [v \in Vars |-> "missing"]
  /\ phase = "stopped"
  /\ failed = {}
  /\ state \in [Dependencies -> {"answers", "refuses", "silent"}]
  /\ probe = ForAll(Each("idle"))
  /\ left = ForAll(0)
  /\ report = ForAll("none")
  /\ grounds = ForAll(Each("none"))

-----------------------------------------------------------------------------
(* Boot *)

\* Mutant: numbers are read as strings.
NumbersAsStrings(env, v) ==
  \/ env[v] \in {"unusable", "good"}
  \/ env[v] = "missing" /\ v \in Durations
  \/ v \in Numbers

\* One entry of envSchema: a pattern, a minimal length or a coerced number.
Accepts(env, v) ==
  \/ env[v] \in {"unusable", "good"}
  \/ env[v] = "missing" /\ v \in Numbers \union Durations

\* Mutant: no default is applied.
NoDefault(env, v) == env[v]

\* default(): applied where the variable is missing.
Parsed(env, v) == IF env[v] = "missing" THEN "good" ELSE env[v]

\* A process is started, from whatever its environment has become meanwhile:
\* validateEnv ends it, or returns the configuration.
Start ==
  /\ phase \in {"stopped", "aborted"}
  /\ \E env \in Environments :
       IF \A v \in Vars : Accepts(env, v)
         THEN phase' = "connect" /\ config' = [v \in Vars |-> Parsed(env, v)]
         ELSE phase' = "aborted" /\ UNCHANGED config
  /\ UNCHANGED <<failed, state, health>>

Throws(v) == config[v] # "good"

\* onModuleInit: without a Postgres that answers, $connect throws in the end,
\* and so does bootstrap.  Redis is not asked; of its URL the driver refuses at
\* once only what it cannot take apart.
Connect ==
  /\ phase = "connect"
  /\ \/ /\ ~Throws(PostgresUrl) /\ state["postgres"] = "answers"
        /\ phase' = "listening"
     \/ /\ Throws(PostgresUrl) \/ Throws(RedisUrl) \/ state["postgres"] # "answers"
        /\ phase' = "aborted"
  /\ UNCHANGED <<config, failed, state, health>>

\* A login with the right password, while the dependencies answer: it asks Redis
\* first, and then uses the threshold, the secrets and both durations.
Login ==
  /\ phase = "listening"
  /\ failed' = failed \union
       IF Throws(RedisUrl) THEN {RedisUrl} ELSE {v \in Vars : Throws(v)}
  /\ UNCHANGED <<config, phase, state, health>>

\* The process ends, and with it the checks in progress.
Stop ==
  /\ phase # "stopped"
  /\ phase' = "stopped"
  /\ probe' = ForAll(Each("idle"))
  /\ left' = ForAll(0)
  /\ report' = ForAll("none")
  /\ grounds' = ForAll(Each("none"))
  /\ UNCHANGED <<config, failed, state>>

-----------------------------------------------------------------------------
(* Health *)

Check(c) ==
  /\ phase = "listening"
  /\ probe[c] = Each("idle")
  /\ probe' = [probe EXCEPT ![c] = Each("pending")]
  /\ left' = [left EXCEPT ![c] = TimeoutMs]
  /\ report' = [report EXCEPT ![c] = "none"]
  /\ grounds' = [grounds EXCEPT ![c] = Each("none")]
  /\ UNCHANGED <<boot, state>>

Settle(c, d, outcome, why) ==
  /\ probe[c][d] = "pending"
  /\ probe' = [probe EXCEPT ![c][d] = outcome]
  /\ grounds' = [grounds EXCEPT ![c][d] = why]
  /\ UNCHANGED <<boot, state, left, report>>

Connected(d) == d = "redis" => ~Throws(RedisUrl)

\* PONG, or the row of SELECT 1.
Answers(c, d) == state[d] = "answers" /\ Connected(d) /\ Settle(c, d, "up", "answered")

\* Mutant: an error of the driver is not caught.
RefusedUncaught == "rejected"

RefusedAs == "down"

\* The driver reports an error, which both probes catch.
Refuses(c, d) ==
  /\ state[d] = "refuses" \/ ~Connected(d)
  /\ Settle(c, d, RefusedAs, "refused")

\* Mutant: the ping waits for Redis alone.
NeverFires(c) == FALSE

Fires(c) == left[c] = 0

\* The timer wins the race; an answer that comes later is not looked at.
PingTimeout(c) == Fires(c) /\ Settle(c, "redis", "down", "timeout")

\* Mutant: one dependency that is up is enough.
EitherUp(c) == probe[c]["postgres"] = "up" \/ probe[c]["redis"] = "up"

BothUp(c) == probe[c]["postgres"] = "up" /\ probe[c]["redis"] = "up"

\* Promise.all has both results: 200 or 503.
Respond(c) ==
  /\ \A d \in Dependencies : probe[c][d] \in {"up", "down"}
  /\ report' = [report EXCEPT ![c] = IF BothUp(c) THEN "ok" ELSE "error"]
  /\ probe' = [probe EXCEPT ![c] = Each("idle")]
  /\ UNCHANGED <<boot, state, left, grounds>>

-----------------------------------------------------------------------------
(* Outside *)

Tick ==
  /\ \E c \in Checks : left[c] > 0
  /\ left' = [c \in Checks |-> IF left[c] = 0 THEN 0 ELSE left[c] - 1]
  /\ UNCHANGED <<boot, state, probe, report, grounds>>

Change(d) ==
  /\ \E s \in {"answers", "refuses", "silent"} : state' = [state EXCEPT ![d] = s]
  /\ UNCHANGED <<boot, health>>

Next ==
  \/ Start \/ Connect \/ Login \/ Stop
  \/ \E c \in Checks : Check(c) \/ PingTimeout(c) \/ Respond(c)
                       \/ \E d \in Dependencies : Answers(c, d) \/ Refuses(c, d)
  \/ Tick
  \/ \E d \in Dependencies : Change(d)

Spec == Init /\ [][Next]_vars

\* Time passes, and the event loop handles what has arrived.
FairSpec ==
  /\ Spec
  /\ WF_vars(Tick)
  /\ \A c \in Checks : /\ WF_vars(PingTimeout(c)) /\ WF_vars(Respond(c))
                       /\ \A d \in Dependencies : WF_vars(Answers(c, d) \/ Refuses(c, d))

-----------------------------------------------------------------------------
(* Properties *)

\* The shape of the state; what has been validated is never missing, and the
\* two probes of a check start and end together, as Promise.all takes them.
TypeOK ==
  /\ config \in Environments
  /\ phase \in {"stopped", "connect", "listening", "aborted"}
  /\ failed \subseteq Vars
  /\ state \in [Dependencies -> {"answers", "refuses", "silent"}]
  /\ probe \in [Checks -> [Dependencies -> {"idle", "pending", "up", "down"}]]
  /\ left \in [Checks -> 0 .. TimeoutMs]
  /\ report \in [Checks -> {"none", "ok", "error"}]
  /\ grounds \in [Checks -> [Dependencies -> {"none", "answered", "refused", "timeout"}]]
  /\ phase \in {"connect", "listening"} => \A v \in Vars : config[v] \in {"unusable", "good"}
  /\ \A c \in Checks : probe[c] = Each("idle") \/ "idle" \notin {probe[c][d] : d \in Dependencies}

\* What validateEnv lets through and the code cannot use: whatever
\* environments processes were started from, a login fails because of a duration
\* or of the URL of Redis, and of no other variable; and as long as that URL
\* cannot be used, no health check answers 200.
LateFailuresKnown ==
  /\ failed \subseteq Durations \union {RedisUrl}
  /\ phase = "listening" /\ Throws(RedisUrl) => \A c \in Checks : report[c] # "ok"

\* 200 is answered exactly when both dependencies have answered this check,
\* and Redis counts as down for silence only after the whole timeout.
ReportTruthful ==
  \A c \in Checks :
    /\ report[c] = "ok" => \A d \in Dependencies : grounds[c][d] = "answered"
    /\ report[c] = "error" => \E d \in Dependencies : grounds[c][d] \in {"refused", "timeout"}
    /\ grounds[c]["redis"] = "timeout" => left[c] = 0
    /\ grounds[c]["postgres"] # "timeout"

Pending(c) == probe[c] # Each("idle")

\* Whatever Redis does, a check is answered, unless Postgres falls silent or
\* the process ends.
AnswersDespiteRedis ==
  <>[](state["postgres"] # "silent") => \A c \in Checks : Pending(c) ~> ~Pending(c)

=============================================================================
