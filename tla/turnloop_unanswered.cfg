SPECIFICATION Spec
CONSTANTS
  Calls = {c1, c2}
  MaxTurns = 2
  MaxToolRounds = 1
  MaxParallel = 1
CHECK_DEADLOCK FALSE
INVARIANTS EveryCallAnswered
