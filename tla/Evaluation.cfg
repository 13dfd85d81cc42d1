\* Two runs and two stop requests.
SPECIFICATION EvaluationSpec
CONSTANTS
  Runs = {r1, r2}
  Stops = {s1, s2}
  None = None
INVARIANTS
  OneRunAtATime
PROPERTIES
  StopMeansKilled
  EverythingEnds
CHECK_DEADLOCK FALSE
