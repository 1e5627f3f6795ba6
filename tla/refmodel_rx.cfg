SPECIFICATION Spec
CONSTANTS
    NTxBuf = 1
    MaxId = 1
    NDlc = 1
    NDataWord = 1
    Offsets = {}
    Words = {0}
    PlainRegs = {}
    Frames <- RxFrames
    ErrorFrames = {err}
    RxDepth = 2
    FillLevels = 2
    TxEventDepth = 1
    EWARN_LIMIT = 3
    EPAS_LIMIT = 4
    BUSOFF_LIMIT = 8
    ErrorStep = 4
    CounterValues = 16
    Timestamps = 1
    CountBound = 3
    RequestMasks = {}
    CancelMasks = {}
    Requesters = {}
    FilterSettings <- OnlyF1
    Errors = {"ACK"}
    Readers = {0, 1}
    f1 = f1
    f2 = f2
    err = err
INVARIANTS TypeOK FillStatusExact ErrorStateLatched
PROPERTIES RxImplementsQueues
