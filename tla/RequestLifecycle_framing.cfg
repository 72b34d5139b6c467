SPECIFICATION Spec
CONSTANTS
  r1 = r1
  b1 = b1
  b2 = b2
  fix = fix
  Requests = {r1}
  Calls <- MCCalls
  NoModel = NoModel
  InitialPrivacy = {TRUE}
  Lengths = {"none", "right"}
  Backends = {b1, b2}
  NoBackend = NoBackend
  AnyBackend = AnyBackend
  FixId = fix
  SomePatterns <- MCPatterns
  SomeTexts <- MCTexts
  Chars = {"G", "g", "q", "*", "?"}
  Pages = {p1}
  Bodies <- MCBodies
  InitialBodies <- MCInitialBodies
  Lower <- MCLower
  MaxRules = 2
  MaxEdits = 0
  MaxToggles = 1
INVARIANT FramedAsDelivered
