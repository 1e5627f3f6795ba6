SPECIFICATION Spec
CONSTANTS
    NTxBuf = 2
    MaxId = 2
    NDlc = 1
    NDataWord = 1
    Offsets = {0}
    Words <- TxWords
    PlainRegs = {}
    Frames = {}
    ErrorFrames = {}
    RxDepth = 2
    FillLevels = 2
    TxEventDepth = 2
    EWARN_LIMIT = 3
    EPAS_LIMIT = 4
    BUSOFF_LIMIT = 8
    ErrorStep = 4
    CounterValues = 16
    Timestamps = 1
    CountBound = 3
    RequestMasks <- OneBuffer
    CancelMasks <- OneOrAll
    Requesters = {0, 1}
    FilterSettings = {}
    Errors = {}
    Readers = {}
    f1 = f1
    f2 = f2
    err = err
INVARIANTS EventStatusExact QueuesAccounted
PROPERTIES TransmitsHighestPriority
