SPECIFICATION OverlapSpec
CONSTANTS
    dflt = dflt
    web = web
    v1 = v1
    v2 = v2
    p1 = p1
    p2 = p2
    Procs = {p1}
    Servers = {dflt, web}
    DefaultName = dflt
    Values = {v1, v2}
    None = None
    NoEntry = NoEntry
    Commands <- AllCommands
    HandConfigs <- MCHandConfigs
INVARIANT TypeOK
INVARIANT RefusalsAreTheOperators
PROPERTY WedgeIsPermanent
PROPERTY NilMapStays
PROPERTY ImplementsStore
