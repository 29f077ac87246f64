SPECIFICATION Spec
CONSTANTS
    s1 = s1
    s2 = s2
    alice = alice
    bob = bob
    r1 = r1
    r2 = r2
    NoUser = NoUser
    NoResource = NoResource
    NoSession = NoSession
    Sessions = {s1, s2}
    Users = {alice, bob}
    Resources = {r1, r2}
    TLSConfigured = TRUE
    WireCap = 1
SYMMETRY Symmetry
INVARIANTS
    TypeOK
    IndexesAgree
    RoutesToOwner
    StaleTargetsKeepAccount
    UncontestedIsReachable
    GhostsAreRebound
    NoHoldAndWait
