SPECIFICATION Spec
CONSTANTS
  Values <- MCValues
  Gaps <- MCGaps
  Roles = {"assistant", "user", "none"}
INVARIANT AlreadyValidUnchanged
