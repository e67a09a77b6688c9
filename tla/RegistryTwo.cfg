SPECIFICATION OverlapSpec
CONSTANTS
    p1 = p1
    p2 = p2
    s1 = s1
    s2 = s2
    d1 = d1
    d2 = d2
    xdir = xdir
    vol = vol
    a1 = a1
    a2 = a2
    mixed = mixed
    none = none
    c1 = c1
    c2 = c2
    cut = cut
    Procs = {p1, p2}
    Services = {s1, s2}
    Paths = {d1, d2, xdir}
    DefaultPath <- MCDefaultPath
    NoPath = NoPath
    NoAssets = none
    NoConfig = none
    Cut = cut
    Contents = {none, a1}
    Configs = {c1}
    Versions <- OneVersion
    Volumes = {vol}
    Matches <- MCMatches
    Commands <- OverlapCommands
    HandRegistries <- MCHandRegistries
SYMMETRY Operators
PROPERTY ServicesStay
PROPERTY PreviewsShipNothing
PROPERTY WedgeIsPermanent
PROPERTY SavesUndoOverlapsOnly
PROPERTY CutConfigBlocks
