---------------------------- MODULE ServiceProofs ----------------------------
(***************************************************************************)
(* Proofs about Service for any variables of the environment, any number   *)
(* of health checks at a time and any timeout of the ping.                 *)
(***************************************************************************)
EXTENDS Service, TLAPS

-----------------------------------------------------------------------------
(* Boot *)

\* What validateEnv returns has a value for every variable, and one that the
\* code can use for every variable but the URLs and the durations.
LEMMA Validated ==
  ASSUME NEW env \in Environments, \A v \in Vars : Accepts(env, v)
  PROVE  /\ [v \in Vars |-> Parsed(env, v)] \in Environments
         /\ \A v \in Vars : /\ Parsed(env, v) \in {"unusable", "good"}
                            /\ v \notin Urls \union Durations => Parsed(env, v) = "good"
<1>1. ASSUME NEW v \in Vars
      PROVE  /\ Parsed(env, v) \in {"unusable", "good"} /\ Parsed(env, v) \in ValuesOf(v)
             /\ v \notin Urls \union Durations => Parsed(env, v) = "good"
  BY DEF Environments, ValuesOf, Values, Accepts, Parsed
<1> QED BY <1>1 DEF Environments, Values

\* A process that has been started can use its variables, but for the URLs and
\* the durations; one that serves requests can use the URL of Postgres, too.
BootOK ==
  /\ config \in Environments
  /\ phase \in {"stopped", "connect", "listening", "aborted"}
  /\ failed \subseteq Vars /\ failed \subseteq Durations \union {RedisUrl}
  /\ phase \in {"connect", "listening"} =>
       \A v \in Vars : /\ config[v] \in {"unusable", "good"}
                       /\ Throws(v) => v \in Urls \union Durations
  /\ phase = "listening" => ~Throws(PostgresUrl)

\* Start alone writes the configuration.
LEMMA BootStep == BootOK /\ [Next]_vars => BootOK'
<1> SUFFICES ASSUME BootOK, [Next]_vars PROVE BootOK'
  OBVIOUS
<1> USE DEF BootOK, Throws
<1>1. CASE UNCHANGED boot
  BY <1>1 DEF boot
<1>2. CASE Start
  <2>1. PICK env \in Environments :
          IF \A v \in Vars : Accepts(env, v)
            THEN phase' = "connect" /\ config' = [v \in Vars |-> Parsed(env, v)]
            ELSE phase' = "aborted" /\ UNCHANGED config
    BY <1>2 DEF Start
  <2>2. CASE \A v \in Vars : Accepts(env, v)
    <3>1. /\ config' \in Environments
          /\ \A v \in Vars : /\ config'[v] \in {"unusable", "good"}
                             /\ config'[v] # "good" => v \in Urls \union Durations
      BY <2>1, <2>2, Validated
    <3>2. phase' = "connect" /\ UNCHANGED failed
      BY <1>2, <2>1, <2>2 DEF Start
    <3> QED BY <3>1, <3>2
  <2>3. CASE ~ \A v \in Vars : Accepts(env, v)
    BY <1>2, <2>1, <2>3 DEF Start
  <2> QED BY <2>2, <2>3
<1>3. CASE Connect
  BY <1>3 DEF Connect
<1>4. CASE Login
  <2>1. ASSUME NEW v \in Vars, Throws(v) PROVE v \in Durations \union {RedisUrl}
    <3>0. phase = "listening"
      BY <1>4 DEF Login
    <3>1. v \in Urls \union Durations
      BY <2>1, <3>0
    <3>2. v # PostgresUrl
      BY <2>1, <3>0
    <3> QED BY <3>1, <3>2 DEF Urls
  <2>2. RedisUrl \in Vars
    BY DEF Vars, Urls
  <2> QED BY <1>4, <2>1, <2>2 DEF Login
<1>5. CASE Stop
  BY <1>5 DEF Stop
<1>6. ASSUME \/ Tick
             \/ \E d \in Dependencies : Change(d)
             \/ \E c \in Checks : Check(c) \/ PingTimeout(c) \/ Respond(c)
                                  \/ \E d \in Dependencies : Answers(c, d) \/ Refuses(c, d)
      PROVE  UNCHANGED boot
  BY <1>6 DEF Tick, Change, Check, PingTimeout, Respond, Answers, Refuses, Settle
<1> QED
  BY <1>1, <1>2, <1>3, <1>4, <1>5, <1>6 DEF Next, vars

\* The boot's part of the state holds in every state.
LEMMA BootHolds == Spec => []BootOK
<1>1. Init => BootOK
  BY DEF Init, BootOK, Environments, ValuesOf, Values
<1> QED BY <1>1, BootStep, PTL DEF Spec

-----------------------------------------------------------------------------
(* Health *)

Outcomes == {"idle", "pending", "up", "down"}
Reasons  == {"none", "answered", "refused", "timeout"}

\* The part of the type invariant that is about the checks.
HealthOK ==
  /\ state \in [Dependencies -> {"answers", "refuses", "silent"}]
  /\ probe \in [Checks -> [Dependencies -> Outcomes]]
  /\ left \in [Checks -> 0 .. TimeoutMs]
  /\ report \in [Checks -> {"none", "ok", "error"}]
  /\ grounds \in [Checks -> [Dependencies -> Reasons]]

\* One check: its probes start and end together, what a probe came to and why
\* agree, and the answer is given once both have settled.
Sound(c) ==
  /\ \A d \in Dependencies : probe[c][d] = "idle" => probe[c] = Each("idle")
  /\ report[c] # "none" => probe[c] = Each("idle")
  /\ \A d \in Dependencies :
       /\ probe[c][d] = "up" => grounds[c][d] = "answered"
       /\ probe[c][d] = "down" => grounds[c][d] \in {"refused", "timeout"}
  /\ report[c] = "ok" => \A d \in Dependencies : grounds[c][d] = "answered"
  /\ report[c] = "error" => \E d \in Dependencies : grounds[c][d] \in {"refused", "timeout"}
  /\ grounds[c]["redis"] = "timeout" => left[c] = 0
  /\ grounds[c]["postgres"] # "timeout"

HealthInv == HealthOK /\ \A c \in Checks : Sound(c)

\* What a step leaves alone of a check stays sound.
LEMMA Untouched ==
  ASSUME NEW c \in Checks, Sound(c), probe'[c] = probe[c], report'[c] = report[c],
         grounds'[c] = grounds[c], left[c] = 0 => left'[c] = 0
  PROVE  Sound(c)'
  BY DEF Sound, Each

\* A probe that settles keeps every check sound, if the reason fits the outcome.
LEMMA SettleStep ==
  ASSUME HealthInv, NEW c \in Checks, NEW d \in Dependencies,
         NEW outcome \in {"up", "down"}, NEW why \in Reasons \ {"none"}, Settle(c, d, outcome, why),
         outcome = "up" <=> why = "answered",
         why = "timeout" => d = "redis" /\ left[c] = 0
  PROVE  HealthInv'
<1> USE DEF HealthInv, HealthOK, Settle, health, Dependencies
<1>1. HealthOK'
  BY DEF Outcomes, Reasons
<1>2. ASSUME NEW e \in Checks PROVE Sound(e)'
  <2>1. CASE e # c
    BY <2>1, Untouched
  <2>2. CASE e = c
    <3>1. /\ probe'[c] = [probe[c] EXCEPT ![d] = outcome]
          /\ grounds'[c] = [grounds[c] EXCEPT ![d] = why]
          /\ report'[c] = report[c] /\ left'[c] = left[c]
      OBVIOUS
    <3>2. /\ probe[c] \in [Dependencies -> Outcomes] /\ grounds[c] \in [Dependencies -> Reasons]
          /\ Sound(c)
      OBVIOUS
    <3>3. \A x \in Dependencies : probe[c][x] # "idle"
      BY <3>2 DEF Sound, Each
    <3>4. report[c] = "none"
      BY <3>2, <3>3 DEF Sound, Each, Reasons
    <3>5. \A x \in Dependencies : probe'[c][x] # "idle"
      BY <3>1, <3>2, <3>3
    <3> QED
      BY <2>2, <3>1, <3>2, <3>4, <3>5 DEF Sound, Reasons
  <2> QED BY <2>1, <2>2
<1> QED BY <1>1, <1>2

\* Both probes of a check are settled by its own steps only, and its answer is
\* formed from what they came to.
LEMMA HealthStep == HealthInv /\ [Next]_vars => HealthInv'
<1> SUFFICES ASSUME HealthInv, [Next]_vars PROVE HealthInv'
  OBVIOUS
<1>1. CASE UNCHANGED health /\ state' \in [Dependencies -> {"answers", "refuses", "silent"}]
  BY <1>1 DEF HealthInv, HealthOK, Sound, health
<1>2. ASSUME NEW c \in Checks, Check(c) PROVE HealthInv'
  <2>1. HealthOK'
    BY <1>2, TimeoutAssumption DEF HealthInv, HealthOK, Check, Each, Outcomes, Reasons
  <2>2. ASSUME NEW e \in Checks \ {c} PROVE Sound(e)'
    BY <1>2, Untouched DEF HealthInv, HealthOK, Check
  <2>3. /\ probe'[c] = Each("pending") /\ report'[c] = "none" /\ grounds'[c] = Each("none")
    BY <1>2 DEF HealthInv, HealthOK, Check
  <2>4. Sound(c)'
    BY <2>3 DEF Sound, Each, Dependencies
  <2> QED BY <2>1, <2>2, <2>4 DEF HealthInv
<1>3. ASSUME NEW c \in Checks, NEW d \in Dependencies, Answers(c, d) PROVE HealthInv'
  BY <1>3, SettleStep DEF Answers, Reasons
<1>4. ASSUME NEW c \in Checks, NEW d \in Dependencies, Refuses(c, d) PROVE HealthInv'
  BY <1>4, SettleStep DEF Refuses, RefusedAs, Reasons
<1>5. ASSUME NEW c \in Checks, PingTimeout(c) PROVE HealthInv'
  BY <1>5, SettleStep DEF PingTimeout, Fires, Reasons, Dependencies
<1>6. ASSUME NEW c \in Checks, Respond(c) PROVE HealthInv'
  <2>1. HealthOK'
    BY <1>6 DEF HealthInv, HealthOK, Respond, Each, Outcomes
  <2>2. ASSUME NEW e \in Checks \ {c} PROVE Sound(e)'
    BY <1>6, Untouched DEF HealthInv, HealthOK, Respond
  <2>3. /\ probe'[c] = Each("idle") /\ grounds' = grounds /\ left' = left
        /\ report'[c] = IF BothUp(c) THEN "ok" ELSE "error"
        /\ \A d \in Dependencies : probe[c][d] \in {"up", "down"}
    BY <1>6 DEF HealthInv, HealthOK, Respond
  <2>4. Sound(c)
    BY DEF HealthInv
  <2>5. Sound(c)'
    BY <2>3, <2>4 DEF Sound, BothUp, Each, Dependencies
  <2> QED BY <2>1, <2>2, <2>5 DEF HealthInv
<1>7. CASE Tick
  <2>1. HealthOK'
    <3>1. \A n \in 0 .. TimeoutMs : (IF n = 0 THEN 0 ELSE n - 1) \in 0 .. TimeoutMs
      BY TimeoutAssumption
    <3> QED BY <1>7, <3>1 DEF HealthInv, HealthOK, Tick
  <2>2. ASSUME NEW c \in Checks PROVE Sound(c)'
    BY <1>7, Untouched DEF HealthInv, HealthOK, Tick
  <2> QED BY <2>1, <2>2 DEF HealthInv
<1>8. CASE Stop
  BY <1>8, TimeoutAssumption
  DEF HealthInv, HealthOK, Sound, Stop, ForAll, Each, Dependencies, Outcomes, Reasons
<1>9. ASSUME NEW d \in Dependencies, Change(d) PROVE HealthInv'
  BY <1>1, <1>9 DEF Change, HealthInv, HealthOK
<1>10. ASSUME Start \/ Connect \/ Login \/ UNCHANGED vars
       PROVE  HealthInv'
  BY <1>1, <1>10 DEF Start, Connect, Login, vars, HealthInv, HealthOK
<1> QED
  BY <1>2, <1>3, <1>4, <1>5, <1>6, <1>7, <1>8, <1>9, <1>10 DEF Next

\* Every check is sound in every state.
LEMMA HealthHolds == Spec => []HealthInv
<1>1. Init => HealthInv
  BY TimeoutAssumption
  DEF Init, HealthInv, HealthOK, Sound, ForAll, Each, Dependencies, Outcomes, Reasons
<1> QED BY <1>1, HealthStep, PTL DEF Spec

\* 200 is answered exactly when both dependencies have answered this check,
\* and Redis counts as down for silence only after the whole timeout.
THEOREM Truthful == Spec => []ReportTruthful
<1>1. HealthInv => ReportTruthful
  BY DEF HealthInv, Sound, ReportTruthful
<1> QED BY <1>1, HealthHolds, PTL

\* As long as the URL of Redis cannot be used, no ping is answered.
LEMMA SilentUrl ==
  Spec => [](phase = "listening" /\ Throws(RedisUrl) => \A c \in Checks : grounds[c]["redis"] # "answered")
<1> DEFINE Silent == \A c \in Checks : grounds[c]["redis"] # "answered"
           Unasked == phase = "listening" \/
                        \A c \in Checks : probe[c] = Each("idle") /\ grounds[c] = Each("none")
           Inv == Unasked /\ (phase = "listening" /\ Throws(RedisUrl) => Silent)
<1>1. Init => Inv
  BY DEF Init, ForAll, Each, Dependencies
<1>2. HealthInv /\ Inv /\ [Next]_vars => Inv'
  <2> SUFFICES ASSUME HealthInv, Inv, [Next]_vars PROVE Inv'
    OBVIOUS
  <2> USE DEF HealthInv, HealthOK, Throws
  <2>1. ASSUME UNCHANGED <<phase, config, probe, grounds>> PROVE Inv'
    BY <2>1
  <2>2. CASE Start \/ Connect
    BY <2>2 DEF Start, Connect, health, Each, Dependencies
  <2>3. CASE Stop
    BY <2>3 DEF Stop, ForAll, Each, Dependencies
  <2>4. ASSUME NEW c \in Checks, Check(c) PROVE Inv'
    BY <2>4 DEF Check, boot, Each, Dependencies
  <2>5. ASSUME NEW c \in Checks, NEW d \in Dependencies, NEW o, NEW w, Settle(c, d, o, w),
               d = "redis" /\ w = "answered" => ~Throws(RedisUrl)
        PROVE  Inv'
    <3>1. UNCHANGED <<phase, config>> /\ grounds' = [grounds EXCEPT ![c][d] = w]
      BY <2>5 DEF Settle, boot
    <3>2. phase = "listening"
      <4>1. probe[c][d] = "pending"
        BY <2>5 DEF Settle
      <4> QED BY <4>1 DEF Each
    <3> QED BY <2>5, <3>1, <3>2 DEF Dependencies
  <2>6. ASSUME NEW c \in Checks,
               PingTimeout(c) \/ \E d \in Dependencies : Answers(c, d) \/ Refuses(c, d)
        PROVE  Inv'
    BY <2>5, <2>6 DEF PingTimeout, Answers, Refuses, Connected, Dependencies
  <2>7. ASSUME \/ Login \/ Tick \/ UNCHANGED vars
               \/ \E d \in Dependencies : Change(d)
        PROVE  UNCHANGED <<phase, config, probe, grounds>>
    BY <2>7 DEF Login, Tick, Change, vars, boot, health
  <2>8. ASSUME NEW c \in Checks, Respond(c) PROVE Inv'
    <3>1. probe[c] # Each("idle")
      BY <2>8 DEF Respond, Each, Dependencies
    <3> QED BY <2>8, <3>1 DEF Respond, boot
  <2> QED BY <2>1, <2>2, <2>3, <2>4, <2>6, <2>7, <2>8 DEF Next
<1>3. Inv => (phase = "listening" /\ Throws(RedisUrl) => Silent)
  OBVIOUS
<1> QED BY <1>1, <1>2, <1>3, HealthHolds, PTL DEF Spec

\* Whatever environments processes were started from, what validation lets
\* through makes a login fail through a duration or the URL of Redis only, and
\* the latter keeps every health check from answering 200.
THEOREM LateFailures == Spec => []LateFailuresKnown
<1>1. ASSUME BootOK, HealthInv,
             phase = "listening" /\ Throws(RedisUrl) => \A c \in Checks : grounds[c]["redis"] # "answered"
      PROVE  LateFailuresKnown
  <2>1. ASSUME NEW c \in Checks, report[c] = "ok" PROVE grounds[c]["redis"] = "answered"
    BY <1>1, <2>1 DEF HealthInv, Sound, Dependencies
  <2> QED BY <1>1, <2>1 DEF BootOK, LateFailuresKnown
<1> QED BY <1>1, BootHolds, HealthHolds, SilentUrl, PTL

\* The shape of the state: a running process has a value for every variable,
\* and the probes of a check start and end together.
THEOREM TypeCorrect == Spec => []TypeOK
<1>1. BootOK /\ HealthInv => TypeOK
  <2> SUFFICES ASSUME BootOK, HealthInv PROVE TypeOK
    OBVIOUS
  <2>1. ASSUME NEW c \in Checks
        PROVE  probe[c] = Each("idle") \/ "idle" \notin {probe[c][d] : d \in Dependencies}
    BY DEF HealthInv, Sound
  <2>2. \A c \in Checks : probe[c] = Each("idle") \/ "idle" \notin {probe[c][d] : d \in Dependencies}
    BY <2>1
  <2>3. /\ config \in Environments /\ phase \in {"stopped", "connect", "listening", "aborted"}
        /\ failed \subseteq Vars
        /\ phase \in {"connect", "listening"} => \A v \in Vars : config[v] \in {"unusable", "good"}
    BY DEF BootOK
  <2>4. HealthOK
    BY DEF HealthInv
  <2> QED BY <2>2, <2>3, <2>4 DEF HealthOK, TypeOK, Outcomes, Reasons
<1> QED BY <1>1, BootHolds, HealthHolds, PTL

=============================================================================
