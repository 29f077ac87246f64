SPECIFICATION Spec
CONSTANTS
    NoKey = NoKey
    NoPreKey = NoPreKey
    NoPending = NoPending
    NoSession = NoSession
    NoBundle = NoBundle
    Devices = {a, b}
    Initiators = {a}
    Responders = {b}
    PreKeyCount = 1
    Dispatches = {"session"}
    MaxSkip = 5
    MaxSent = 6
    MaxRepeats = 0
    MaxFaults = 0
    MaxRestarts = 1
    MaxBundles = 0
CHECK_DEADLOCK FALSE
INVARIANTS
    DeliveredOnceDecrypts
