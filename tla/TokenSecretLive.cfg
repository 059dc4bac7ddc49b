SPECIFICATION Live
CONSTANTS
  t1 = t1
  t2 = t2
  a = a
  b = b
  plain = plain
  Nil = Nil
  Tokens = {t1}
  Keys = {a, b}
  Labels = {plain}
  Manifests <- DelaysAndKinds
  AppFailures = {"AppNotReady"}
  TokenValidity = 2
  MaxTries = 2
  MaxGeneration = 2
  MaxIncarnation = 1
  MaxFaults = 1
  MaxMeddles = 0
  MaxTime = 0
  Quiet = FALSE
  Relists = FALSE
  Outages = TRUE
PROPERTY EventuallyServed ComesToRest NoLeakAfterDeletion
CHECK_DEADLOCK FALSE
