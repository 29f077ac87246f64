SPECIFICATION Spec
CONSTANTS
    NoKey = NoKey
    NoPreKey = NoPreKey
    NoPending = NoPending
    NoSession = NoSession
    NoBundle = NoBundle
    Devices = {a, b}
    Initiators = {a}
    Responders = {b}
    PreKeyCount = 1
    Dispatches = {"flag"}
    MaxSkip = 5
    MaxSent = 2
    MaxRepeats = 0
    MaxFaults = 0
    MaxRestarts = 0
    MaxBundles = 0
CHECK_DEADLOCK FALSE
INVARIANTS
    DeliveredOnceDecrypts
