SPECIFICATION FairSpec
CONSTANTS
    d1 = d1
    d2 = d2
    m1 = m1
    ctl = ctl
    io = io
    RxDevice = {d1, d2}
    TxDevice = {m1}
    Attributes <- Outputs
    Client = {ctl, io}
    Calls <- NoStop
    Ssr = ssr
    Faults = {}
    CardFaults = {"OFFLINE", "STANDBY"}
    Overlap = {"open", "start", "write"}
    Between = {"open", "start", "stop", "close", "write", "read"}
    Settles = TRUE
    Others = 1
    MaxCount = 3
    MaxMsgs = 4
    MaxChanges = 4
INVARIANT Recovered
PROPERTIES Recovers CallsReturn
CHECK_DEADLOCK FALSE
