SPECIFICATION Spec
CONSTANTS
    d1 = d1
    d2 = d2
    m1 = m1
    ctl = ctl
    io = io
    RxDevice = {d1, d2}
    TxDevice = {m1}
    Attributes <- OneOutput
    Client = {ctl, io}
    Calls <- Transport
    Ssr = ssr
    Faults = {"device open", "session open"}
    CardFaults = {"OFFLINE"}
    Overlap = {"open", "start", "stop", "close", "write"}
    Between = {"open", "start", "stop", "close", "write", "read"}
    Settles = FALSE
    Others = 0
    MaxCount = 3
    MaxMsgs = 3
    MaxChanges = 3
INVARIANTS TypeOK NoSelfDeadlock DownRoundCloses
CHECK_DEADLOCK FALSE
