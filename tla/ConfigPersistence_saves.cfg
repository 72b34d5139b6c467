SPECIFICATION Spec
CONSTANTS
  Callers = {c1, c2}
  MaxChanges = 2
  MaxFaults = 1
INVARIANT LostOnlyIfBehind
PROPERTY AnsweredMeansWritten
PROPERTY SavesAreCurrent
