SPECIFICATION ScbSpec
CONSTANTS
    NTxBuf = 2
    MaxId = 1
    NDlc = 1
    NDataWord = 1
    Offsets = {}
    Words = {0, 1}
    PlainRegs = {"AFR"}
    Frames <- RxFrames
    ErrorFrames = {err}
    RxDepth = 1
    FillLevels = 2
    TxEventDepth = 2
    EWARN_LIMIT = 3
    EPAS_LIMIT = 4
    BUSOFF_LIMIT = 8
    ErrorStep = 4
    CounterValues = 16
    Timestamps = 4
    CountBound = 2
    RequestMasks <- OneBuffer
    CancelMasks <- OneBuffer
    Requesters = {}
    FilterSettings = {}
    Errors = {}
    Readers = {}
    f1 = f1
    f2 = f2
    err = err
    OverloadFrames = {}
    HostOps <- RxOps
    HostBudget = 3
    FrameBudget = 2
    EdgeBound = 2
INVARIANTS NoFalseAlarm
CHECK_DEADLOCK FALSE
