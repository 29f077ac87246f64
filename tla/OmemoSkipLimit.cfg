SPECIFICATION Spec
CONSTANTS
    NoKey = NoKey
    NoPreKey = NoPreKey
    NoPending = NoPending
    NoSession = NoSession
    NoBundle = NoBundle
    Devices = {a, b}
    Initiators = {a}
    Responders = {b}
    PreKeyCount = 1
    Dispatches = {"session"}
    MaxSkip = 1
    MaxSent = 5
    MaxRepeats = 0
    MaxFaults = 0
    MaxRestarts = 0
    MaxBundles = 0
CHECK_DEADLOCK FALSE
INVARIANTS
    SkippedKeysBounded
