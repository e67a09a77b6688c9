SPECIFICATION OverlapSpec
CONSTANTS
    p1 = p1
    p2 = p2
    n1 = n1
    n2 = n2
    v1 = v1
    v2 = v2
    vol = vol
    other = other
    Procs = {p1}
    Names = {n1, n2}
    Values = {v1, v2}
    NoValue = NoValue
    Volume = vol
    Volumes = {vol, other}
    Matches <- PartMatches
    Commands <- AllCommands
    HandNames = {{}, {n1}}
INVARIANT FoundVolumesExist
