SPECIFICATION Spec
CONSTANTS
    d1 = d1
    d2 = d2
    m1 = m1
    ctl = ctl
    io = io
    RxDevice = {d1, d2}
    TxDevice = {m1}
    Attributes <- AllKinds
    Client = {ctl, io}
    Calls <- Transport
    Ssr = ssr
    Faults = {"session open", "device start", "session prepare", "session start", "session pause", "session io"}
    CardFaults = {"OFFLINE", "STANDBY"}
    Overlap = {"open", "write", "read"}
    Between = {"open", "start", "stop", "close", "write", "read"}
    Settles = FALSE
    Others = 1
    MaxCount = 3
    MaxMsgs = 4
    MaxChanges = 3
INVARIANTS Coherent OthersUnharmed
CHECK_DEADLOCK FALSE
