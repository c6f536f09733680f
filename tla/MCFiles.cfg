SPECIFICATION FairSpec
CONSTANTS
    Adder = {a1, a2}
    Owner = {o1}
    MaxFiles = 2
    MaxRoots = 1
    MaxFaults = 1
    NoOwner = NoOwner
INVARIANTS OnlyCopySurvives
PROPERTIES ShareOneUpload FilesSettle
CHECK_DEADLOCK FALSE
