SPECIFICATION HandOverSpec
CONSTANTS
  t1 = t1
  t2 = t2
  a = a
  b = b
  plain = plain
  Nil = Nil
  Tokens = {t1, t2}
  Keys = {a}
  Labels = {plain}
  Manifests <- Contention
  AppFailures = {"AppNotFound", "AppNotReady"}
  TokenValidity = 2
  MaxTries = 2
  MaxGeneration = 1
  MaxIncarnation = 2
  MaxFaults = 0
  MaxMeddles = 0
  MaxTime = 0
  Quiet = FALSE
  Relists = FALSE
  Outages = FALSE
PROPERTY HandOver
CHECK_DEADLOCK FALSE
