SPECIFICATION SmtSpec
CONSTANTS
    n1 = n1
    v1 = v1
    s1 = s1
    d1 = d1
    vol = vol
    other = other
    a1 = a1
    none = none
    c1 = c1
    Procs = {p1}
    Names = {n1}
    Values = {v1}
    NoValue = NoValue
    Volume = vol
    Volumes = {vol, other}
    Matches <- MCMatches
    Commands <- MCCommands
    HandNames = {{}}
    Deployers = {q1}
    Services = {s1}
    Paths = {d1}
    DefaultPath <- MCDefaultPath
    NoPath = NoPath
    Contents = {none, a1}
    NoAssets = none
    Configs = {c1}
    NoConfig = NoConfig
    Cut = Cut
    Versions <- MCVersions
    ServerCommands <- MCServerCommands
    HandRegistries <- MCHandRegistries
PROPERTY ComponentsAsSpecified
PROPERTY VolumeOnPurpose
