SPECIFICATION Spec
CONSTANTS
    Names <- MCNames
    MaxWidth = 4
    Width <- MCWidth
    Lists <- MCLists
    Headers = {0, 3, 4, 5}
INVARIANT ShowsTheLists
INVARIANT NeverPanics
CHECK_DEADLOCK FALSE
