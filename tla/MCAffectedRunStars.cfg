SPECIFICATION Spec
CONSTANTS
    A = A
    B = B
    C = C
    D = D
    T = T
    lock = lock
    doc = doc
    data = data
    asset = asset
    h = h
    u = u
    x = x
    y = y
    l = l
    default = default
    star = star
    here = here
    none = none
    Files <- MCFiles
    Others <- MCOthers
    Tests <- MCTests
    Mutable <- MCMutable
    Names <- MCNames
    Default = default
    Triggers <- MCTriggers
    Ignored <- MCIgnored
    Links <- MCLinks
    Star = star
    Here = here
    None = none
    Repos <- StarRepos
    NameOrder <- MCNameOrder
    MaxShards = 2
    MaxReports = 3
INVARIANT
    NothingNeededIsSkipped
CHECK_DEADLOCK FALSE
