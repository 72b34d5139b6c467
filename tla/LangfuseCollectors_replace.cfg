SPECIFICATION FairSpec
CONSTANTS
  Puts = {p1, p2}
  Requests = {r1}
  Settings = {s2}
  Disabled = Disabled
  Initial = s1
  BatchSize = 2
  MaxCollectors = 2
  MaxEvents = 1
INVARIANT TypeOK
INVARIANT SettingsInForce
INVARIANT SentOnce
INVARIANT StartupIsFlushed
PROPERTY NobodyStarves
PROPERTY LateEventsAreFlushed
CHECK_DEADLOCK FALSE
