SPECIFICATION Safety
CONSTANTS
  s1 = s1
  t1 = t1
  i1 = i1
  i2 = i2
  Nil = Nil
  ops = ops
  Unset = Unset
  Namespaces <- NamespaceChoices
  Names = {"app"}
  OperatorNamespace = ops
  Apps <- OneApp
  KeySecrets = {s1}
  Tokens = {}
  NamespaceOf <- Namespaced
  References <- Fixed
  StartupClient = Nil
  Identities = {i1, i2}
  Pems = {1, 2}
  Manifests <- KmsAndSecret
  Contents = {Nil, 1, 2}
  Refreshing = {}
  MaxGeneration = 2
  MaxRefEdits = 0
  MaxRevision = 3
  MaxFaults = 1
  LostResponses = TRUE
  Relists = FALSE
  Orderly = TRUE
INVARIANT TypeOK NoClientWithoutKey ClientIsCurrent
CHECK_DEADLOCK FALSE
