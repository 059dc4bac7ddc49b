SPECIFICATION Safety
CONSTANTS
  t1 = t1
  t2 = t2
  a = a
  b = b
  plain = plain
  Nil = Nil
  Tokens = {t1, t2}
  Keys = {a}
  Labels = {plain}
  Manifests <- Contention
  AppFailures = {"AppNotFound", "AppNotReady"}
  TokenValidity = 2
  MaxTries = 1
  MaxGeneration = 1
  MaxIncarnation = 2
  MaxFaults = 1
  MaxMeddles = 0
  MaxTime = 0
  Quiet = FALSE
  Relists = FALSE
  Outages = FALSE
INVARIANT TypeOK ReadyIsTrueAtRest
CHECK_DEADLOCK FALSE
