SPECIFICATION FairSpec
CONSTANTS
  token = token
  clusterToken = clusterToken
  app = app
  a1 = a1
  StartupKey = StartupKey
  Nil = Nil
  Callers = {token, clusterToken, app}
  Keys = {a1, StartupKey}
  Versions = {0, 1, 2}
  Uses <- ControllerUses
  MaxBuilds = 3
INVARIANT TypeOK
PROPERTY Linearizable EveryCallReturns
