SPECIFICATION NotifiedSpec
CONSTANTS
  None = None
  Down = Down
  Silent = Silent
  u1 = u1
  u2 = u2
  m1 = m1
  Admins = {a1}
  Requests = {r1}
  Models = {m1}
  Bodies <- MCBodies
  InitialBackends <- MCInitialBackends
  InitialServers <- MCInitialServers
  ServerStates <- MCServerStates
  MaxBackends = 2
  MaxEdits = 2
  MaxFlips = 1
INVARIANT TypeOK
INVARIANT RefreshOwed
INVARIANT RoutesToPreferred
PROPERTY Convergence
PROPERTY ConvergesWithoutTimer
CHECK_DEADLOCK FALSE
