SPECIFICATION Spec
CONSTANTS
    d1 = d1
    d2 = d2
    m1 = m1
    ctl = ctl
    io = io
    RxDevice = {d1, d2}
    TxDevice = {m1}
    Attributes <- OneOutput
    Client = {ctl}
    Calls <- Everything
    Ssr = ssr
    Faults = {}
    CardFaults = {}
    Overlap = {"open", "write", "read"}
    Between = {"open", "start", "stop", "close", "write", "read"}
    Settles = FALSE
    Others = 1
    MaxCount = 3
    MaxMsgs = 4
    MaxChanges = 0
INVARIANT DropsOnlyInSsr
CHECK_DEADLOCK FALSE
