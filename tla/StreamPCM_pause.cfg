SPECIFICATION Spec
CONSTANTS
    d1 = d1
    d2 = d2
    m1 = m1
    ctl = ctl
    io = io
    RxDevice = {d1, d2}
    TxDevice = {m1}
    Attributes <- OneOutput
    Client = {ctl}
    Calls <- PauseResume
    Ssr = ssr
    Faults = {"session pause"}
    CardFaults = {"OFFLINE", "STANDBY"}
    Overlap = {"open"}
    Between = {"open", "start", "stop", "close", "write", "read"}
    Settles = TRUE
    Others = 1
    MaxCount = 3
    MaxMsgs = 4
    MaxChanges = 4
INVARIANTS PausedComesBack
CHECK_DEADLOCK FALSE
