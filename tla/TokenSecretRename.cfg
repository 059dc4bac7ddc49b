SPECIFICATION Safety
CONSTANTS
  t1 = t1
  t2 = t2
  a = a
  b = b
  plain = plain
  Nil = Nil
  Tokens = {t1}
  Keys = {a, b}
  Labels = {plain}
  Manifests <- Renames
  AppFailures = {"AppNotFound", "AppNotReady"}
  TokenValidity = 2
  MaxTries = 2
  MaxGeneration = 2
  MaxIncarnation = 1
  MaxFaults = 0
  MaxMeddles = 0
  MaxTime = 0
  Quiet = FALSE
  Relists = FALSE
  Outages = TRUE
INVARIANT SettledOwnsOneSecret
CHECK_DEADLOCK FALSE
