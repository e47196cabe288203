SPECIFICATION Spec
CONSTANTS
    Streams = {s1, s2}
    BtThreads = {"hal"}
    Routes <- AllRoutes
    RouteAnytime = FALSE
    Overtakes = FALSE
    MaxFaults = 1
SYMMETRY Alike
INVARIANTS
    TypeOK
    CountsMatch
    Heard
    NoLeak
