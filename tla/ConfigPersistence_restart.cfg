SPECIFICATION Spec
CONSTANTS
  Callers = {c1}
  MaxChanges = 2
  MaxFaults = 1
PROPERTY AnsweredSurvivesRestart
