SPECIFICATION OverlapSpec
CONSTANTS
    dflt = dflt
    web = web
    v1 = v1
    v2 = v2
    p1 = p1
    p2 = p2
    Procs = {p1, p2}
    Servers = {dflt, web}
    DefaultName = dflt
    Values = {v1, v2}
    None = None
    NoEntry = NoEntry
    Commands <- OverlapCommands
    HandConfigs <- MCHandConfigs
INVARIANT ConfigsWellFormed
PROPERTY WritesUndoOverlapsOnly
