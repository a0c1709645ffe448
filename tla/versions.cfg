SPECIFICATION Spec
CONSTANTS
    Agents = {a, b}
    Versions = {v1, v2, v3}
    Requests = {r1, r2}
    Runs = {x1}
    None = None
SYMMETRY Symmetry
INVARIANTS OneDeployed ChainIsLinear TargetsRunnable NoCycle RunsAreSingleAgent
PROPERTIES ConfigFrozen ForkIsWhole
CHECK_DEADLOCK FALSE
