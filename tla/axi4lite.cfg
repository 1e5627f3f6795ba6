SPECIFICATION Spec
CONSTANTS
    Addrs = {0, 4}
    Words = {0, 1}
    Resps = {"OKAY", "DECERR"}
    Items <- AnItemOfEach
    NItems = 2
    Policies = {"after_valid", "joint", "any_time"}
INVARIANTS TypeOK MonitorFaithful
PROPERTIES RequestsHeld ItemsComplete
