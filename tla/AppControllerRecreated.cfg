SPECIFICATION Safety
CONSTANTS
  s1 = s1
  t1 = t1
  i1 = i1
  i2 = i2
  Nil = Nil
  ops = ops
  Unset = Unset
  Namespaces <- NamespaceChoices
  Names = {"app"}
  OperatorNamespace = ops
  Apps <- OneApp
  KeySecrets = {s1}
  Tokens = {}
  NamespaceOf <- Namespaced
  References <- Fixed
  StartupClient = Nil
  Identities = {i1, i2}
  Pems = {1}
  Manifests <- KmsOnly
  Contents = {Nil, 1}
  Refreshing = {}
  MaxGeneration = 1
  MaxRefEdits = 0
  MaxRevision = 2
  MaxFaults = 0
  LostResponses = FALSE
  Relists = FALSE
  Orderly = FALSE
INVARIANT ClientIsCurrent
CHECK_DEADLOCK FALSE
