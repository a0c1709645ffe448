SPECIFICATION FairSpec
CONSTANTS
    SkillIds = {"a", "b", "new", "x"}
    Endpoints = {"get", "put"}
    NodeIds = {"start", "e", "s_a", "s_b", "s_new", "s_x", "p", "q"}
    Labels = {"yes"}
    None = None
    NodeOf <- MCNodeOf
    Suffixed <- MCSuffixed
    Archives <- MCArchives
    Bodies <- MCBodies
    Slugs = {"new"}
    Editors = {e1, e2}
    Generators = {"drainer", "hand"}
    MaxEdits <- MCMaxEdits
    MaxFaults = 1
INVARIANTS RefsResolve ReadSoundly
PROPERTIES AlphaLands
