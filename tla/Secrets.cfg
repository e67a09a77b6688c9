SPECIFICATION OverlapSpec
CONSTANTS
    p1 = p1
    p2 = p2
    n1 = n1
    n2 = n2
    v1 = v1
    v2 = v2
    vol = vol
    other = other
    Procs = {p1, p2}
    Names = {n1, n2}
    Values = {v1, v2}
    NoValue = NoValue
    Volume = vol
    Volumes = {vol, other}
    Matches <- ExactMatches
    Commands <- OverlapCommands
    HandNames = {{}, {n2}}
SYMMETRY Operators
INVARIANT TypeOK
INVARIANT OkIsDone
PROPERTY NamesGoFirst
PROPERTY VolumesByConsent
PROPERTY CutNamesArePermanent
