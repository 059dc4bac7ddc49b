SPECIFICATION Safety
CONSTANTS
  s1 = s1
  t1 = t1
  i1 = i1
  i2 = i2
  Nil = Nil
  ops = ops
  Unset = Unset
  Namespaces <- NamespaceChoices
  Names = {"app"}
  OperatorNamespace = ops
  Apps <- OneApp
  KeySecrets = {s1}
  Tokens = {t1}
  NamespaceOf <- Namespaced
  References <- Fixed
  StartupClient = Nil
  Identities = {i1, i2}
  Pems = {1}
  Manifests <- KmsOnly
  Contents = {Nil, 1}
  Refreshing = {}
  MaxGeneration = 2
  MaxRefEdits = 0
  MaxRevision = 1
  MaxFaults = 0
  LostResponses = FALSE
  Relists = FALSE
  Orderly = TRUE
INVARIANT TokenFollowsApp
CHECK_DEADLOCK FALSE
