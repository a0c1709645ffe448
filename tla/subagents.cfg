\* A root and two levels below it, three agent calls in all, two at a time.
CONSTANTS
    Calls = {a, b}
    MaxDepth = 2
    MaxParallel = 2
    MaxToolRounds = 1
    MaxCalls = 3
SPECIFICATION Spec
INVARIANTS InPlace CardsTell
PROPERTY TreeEnds
CHECK_DEADLOCK FALSE
