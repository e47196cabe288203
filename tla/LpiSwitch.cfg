SPECIFICATION Spec
CONSTANTS
    Audio = {a}
    Calls = {c}
    Crs = {}
    Nlpi = {n}
    Vui = {v}
    Bargein = TRUE
    OnCharging = TRUE
    Delay = 1
INVARIANTS
    TypeOK
    SwitchDecided
    RunsInMode
    QuietInCalls
CHECK_DEADLOCK FALSE
