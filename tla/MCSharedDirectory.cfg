SPECIFICATION Spec
CONSTANTS
    r1 = r1
    r2 = r2
    keep = keep
    c1 = c1
    c2 = c2
    registry = registry
    check = check
    in1 = in1
    in2 = in2
    tool1 = tool1
    tool2 = tool2
    Absent = Absent
    NoView = NoView
    Partial = Partial
    None = None
    Unlimited = Unlimited
    Paths <- MCPaths
    Users <- MCUsers
    Runs <- MCRuns
    Keepers <- MCKeepers
    Worlds <- MCWorlds
    Calls <- MCCalls
    Limits <- MCLimits
    InitialEntries <- MCInitialEntries
    MaxTime = 1
    Fields = {"justification", "assessment", "alternatives", "reason"}
    Blanket = "*"
    Globs <- MCGlobs
    Checkers <- MCCheckers
    RegistryPath <- registry
    InitialTrees <- MCTrees
    InitialFiles <- MCFiles
    Overlapping = {"deps"}
    MaxEdits = 1
INVARIANTS
    TypeOK
    HitsAreGenuine
    NoVerdictWithoutApproval
PROPERTIES
    ImplementsAtomicFiles
    OnlyRacesLose
CHECK_DEADLOCK FALSE
