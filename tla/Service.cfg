SPECIFICATION FairSpec
CONSTANTS
  PostgresUrl = DATABASE_URL
  RedisUrl = REDIS_URL
  Secrets = {JWT_SECRET}
  Numbers = {LOGIN_MAX_ATTEMPTS}
  Durations = {JWT_EXPIRES_IN}
  Checks = {c1, c2}
  TimeoutMs = 2
INVARIANTS
  TypeOK
  
  ReportTruthful
PROPERTY
  AnswersDespiteRedis
