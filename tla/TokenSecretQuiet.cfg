SPECIFICATION Safety
CONSTANTS
  t1 = t1
  t2 = t2
  a = a
  b = b
  plain = plain
  Nil = Nil
  Tokens = {t1}
  Keys = {a, b}
  Labels = {plain}
  Manifests <- RenamesAndKinds
  AppFailures = {"AppNotFound", "AppNotReady"}
  TokenValidity = 2
  MaxTries = 1
  MaxGeneration = 2
  MaxIncarnation = 1
  MaxFaults = 1
  MaxMeddles = 1
  MaxTime = 1
  Quiet = TRUE
  Relists = FALSE
  Outages = FALSE
INVARIANT NoStraySecret KindMatches StatusNeverOverstates
PROPERTY OverwriteOnlyOwned ImplementsLease
CHECK_DEADLOCK FALSE
