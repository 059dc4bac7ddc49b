SPECIFICATION PopulatedLive
CONSTANTS
  s1 = s1
  t1 = t1
  i1 = i1
  i2 = i2
  Nil = Nil
  ops = ops
  Unset = Unset
  Namespaces <- NamespaceChoices
  Names = {"app"}
  OperatorNamespace = ops
  Apps <- OneApp
  KeySecrets = {s1}
  Tokens = {t1}
  NamespaceOf <- Cluster
  References <- Switching
  StartupClient = Nil
  Identities = {i1, i2}
  Pems = {1, 2}
  Manifests <- SecretOnly
  Contents = {2}
  Refreshing = {t1}
  MaxGeneration = 1
  MaxRefEdits = 1
  MaxRevision = 3
  MaxFaults = 1
  LostResponses = FALSE
  Relists = FALSE
  Orderly = TRUE
INVARIANT StatusAgrees
PROPERTY NoEventMissed EventuallyMintsWithCurrent ComesToRest
CHECK_DEADLOCK FALSE
