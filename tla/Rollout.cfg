SPECIFICATION Spec
CONSTANTS
    v1 = v1
    v2 = v2
    Versions = {v1, v2}
    None = None
    Cut = Cut
    WithSite = TRUE
    WithExtra = TRUE
    Edited = {"compose", "units", "images"}
SYMMETRY Symmetry
INVARIANT OnlyLostCommandsAreMissing
PROPERTY RestartSeesNewFiles
PROPERTY LostEnableIsPermanent
PROPERTY LostLinkIsPermanent
PROPERTY ComposeStaysOutdated
PROPERTY DeploysShip
