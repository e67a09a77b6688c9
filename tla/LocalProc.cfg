SPECIFICATION FairSpec
CONSTANTS
    MaxToken = 2
    LineMax = 3
    PipeCap = 1
    OutputMax = 4
INVARIANT CaptureComplete
PROPERTY HangIsPermanent
PROPERTY ReturnsOrHangs
CHECK_DEADLOCK FALSE
