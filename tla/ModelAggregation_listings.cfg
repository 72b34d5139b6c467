SPECIFICATION Spec
CONSTANTS
  None = None
  Down = Down
  Silent = Silent
  u1 = u1
  u2 = u2
  u3 = u3
  m1 = m1
  m2 = m2
  Names = {"x", "y", "z"}
  Urls <- MCUrls
  Models <- MCModels
  Configs <- MCConfigs
  Answers <- MCAnswers
  InitialServers <- MCInitialServers
  Listings = {r1}
  MaxFlips = 2
INVARIANT ListingsAgree
INVARIANT FailureIsContained
INVARIANT InOrderMeansRouted
