SPECIFICATION FairSpec
CONSTANTS
  Values <- MCValues
  Gaps <- MCGaps
  Roles = {"assistant", "user", "none"}
INVARIANT CleanedIsMeant
PROPERTY RepairEnds
