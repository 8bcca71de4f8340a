SPECIFICATION Spec
CONSTANTS
    MaxSeq = 3
    MaxVersion = 3
    Good = {1, 2}
INVARIANTS
    PointersInstalled
    CurrentProven
    Restartable
PROPERTIES
    NoRollbackOfChannel
    
