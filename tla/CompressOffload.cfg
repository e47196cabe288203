SPECIFICATION Spec
CONSTANTS
    Clients = {c1, c2}
    Gapless = FALSE
    MaxWrites = 2
    MaxDrains = 1
    MaxControls = 2
    MaxFaults = 1
INVARIANTS
    TypeOK
    WriterIsTold
    NobodyHangs
    CrashIsReported
SYMMETRY Alike
CHECK_DEADLOCK FALSE
