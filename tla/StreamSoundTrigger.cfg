SPECIFICATION Spec
CONSTANTS
    Stage2Choices <- NoneOrOne
    NotifyFailure = FALSE
    RmOps = {"ssr", "pause", "device", "concurrent", "internal"}
    MaxDetections = 1
    MaxFaults = 1
CONSTRAINTS
    SomethingPromised
    NlpiFocus
INVARIANTS
    TypeOK
    DeviceRuns
    WakeHeld
    ActiveIsWanted
    RunsWhenWanted
CHECK_DEADLOCK FALSE
