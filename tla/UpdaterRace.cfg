SPECIFICATION Spec
CONSTANTS
    MaxSeq = 3
    MaxVersion = 3
    Good = {1, 2}
INVARIANT
    CommittedWasReady
