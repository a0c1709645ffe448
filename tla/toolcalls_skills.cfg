SPECIFICATION Spec
CONSTANTS
    Backends = {"h", "m", "n"}
    Kind <- MCKind
    Names <- MCNames
    Clean <- MCClean
    Lower <- MCLower
    Bundle <- MCBundle
    ServerTools <- MCServerTools
    Calls <- MCCalls
    Visitor <- MCVisitor
    HeaderSets <- MCHeaderSets
    Envelopes <- MCEnvelopes
    NoEnvelope = NoEnvelope
    Notes = {"", "n"}
    InitialRows <- MCInitialRows
    InitialWirings <- MCWirings
    InitialAttachments <- MCAttachments
    InitialOverrides <- MCOverrides
    MaxEdits = 0
    MaxCalls = 1
    None = None
    Gone = Gone
INVARIANTS SkillsLoad
CHECK_DEADLOCK FALSE
