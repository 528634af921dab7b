SPECIFICATION Spec
CONSTANTS
    Source <- MCSource
    Depth = 3
    MaxInt = 300
    MaxLen = 255
    MaxRuns = 2
CHECK_DEADLOCK FALSE
INVARIANTS TypeOK CompiledRuns
PROPERTY PackNeverDrops
