SPECIFICATION Spec
CONSTANTS
    p1 = p1
    p2 = p2
    Procs = {p1, p2}
    Paths <- MCPaths
    Commands <- MCCommands
    None = None
    Files = {"Makefile", "Dockerfile"}
    Packages = {"fiber"}
SYMMETRY Symmetry
INVARIANT ConfigComesLast
INVARIANT LoneProjectsAreWhole
PROPERTY SettledIsFinal
