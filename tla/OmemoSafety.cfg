SPECIFICATION Spec
CONSTANTS
    NoKey = NoKey
    NoPreKey = NoPreKey
    NoPending = NoPending
    NoSession = NoSession
    NoBundle = NoBundle
    Devices = {a, b}
    Initiators = {a}
    Responders = {b}
    PreKeyCount = 1
    Dispatches = {"flag", "session"}
    MaxSkip = 2
    MaxSent = 3
    MaxRepeats = 2
    MaxFaults = 1
    MaxRestarts = 1
    MaxBundles = 1
CHECK_DEADLOCK FALSE
INVARIANTS
    TypeOK
    
    AtMostOnce
    ForwardSecrecy
