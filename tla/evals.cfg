SPECIFICATION FairSpec
CONSTANTS
  Evals = {e1}
  Trainings = {t1, t2}
  Drainers = {"evals"}
  Operators = {o1, o2}
  Sessions = {s1, s2}
  MaxFaults = 1
  None = None
INVARIANTS ExclusiveRuns ReportsLandWhole ChildIffDone
CHECK_DEADLOCK FALSE
PROPERTIES Drained
